---- MODULE Spec2Model ----
(***************************************************************************)
(* Model of the caith dice roller: the dice-term evaluator (compute_roll,  *)
(* compute_option and the modifier functions of src/src/parser.rs), the    *)
(* single-expression result (src/src/rollresult/singlerollresult.rs), the  *)
(* expression walker (compute) and the repetition controller               *)
(* (Roller::process_repeated_expr of src/src/lib.rs).                      *)
(*                                                                         *)
(* A die outcome is modelled by its face value: the critic marker of       *)
(* DiceResult is derived from the face and the side count and takes no     *)
(* part in ordering, equality or totals.                                   *)
(***************************************************************************)
EXTENDS Integers, Sequences, FiniteSets, TLC

VARIABLES
    cmd,        \* the parsed command handed to roll_with_source
    pc,         \* position of the evaluation
    ip,         \* index of the next operand/operator visited by the climber
    stack,      \* Result<SingleRollResult> values held by the climber
    rolls,      \* compute_roll: the SingleRollResult being built
    res,        \* compute_roll: the working value set
    modifier,   \* compute_roll: the accumulated TotalModifier
    opts,       \* compute_roll: the options still to apply
    loop,       \* state of a running indefinite explode / reroll loop
    log,        \* dice requested from the source, failures, divisions and keep/drop
                \* applications, in order
    results,    \* process_repeated_expr: results collected so far
    outcome,    \* what roll_with_source returned
    threads,    \* get_climber / Climber::climb: where each thread stands
    climber     \* the process-wide ONCE, PREC_CLIMBER and the RwLock it points to

vars == <<cmd, pc, ip, stack, rolls, res, modifier, opts, loop, log, results,
          outcome, threads, climber>>

----------------------------------------------------------------------------
\* Bounds of the model

MaxDice == 2
MaxSides == 3
MaxMods == 2
MaxRounds == 2
MaxRepeat == 2

\* Calls made on one result
MaxCalls == 4

\* Threads evaluating at the same time, and get_climber calls of each
MaxThreads == 2

MaxClimbs == 2

CapProbe == 101

\* Program constants

MAX_DICE_SIDES == 5000
MAX_NUMBER_OF_DICE == 5000

\* The crate documentation: explosions and rerolls of a die are capped at 100
DocumentedCap == 100

\* An option written without a number (`e`, `ie`, `!`)
NoValue == -1

----------------------------------------------------------------------------
\* Sequences of numbers

RECURSIVE SumSeq(_)
SumSeq(s) ==
    IF Len(s) <= 1 THEN (IF s = <<>> THEN 0 ELSE s[1])
    ELSE SumSeq(SubSeq(s, 1, Len(s) \div 2)) + SumSeq(SubSeq(s, Len(s) \div 2 + 1, Len(s)))

\* The values vals of s in ascending order, each as often as s holds it
RECURSIVE SortedRuns(_, _)
SortedRuns(s, vals) ==
    IF vals = {} THEN <<>>
    ELSE LET v == CHOOSE x \in vals : \A y \in vals : x <= y
         IN [i \in 1..Cardinality({j \in 1..Len(s) : s[j] = v}) |-> v]
            \o SortedRuns(s, vals \ {v})

\* s in ascending order
SortAsc(s) == SortedRuns(s, {s[j] : j \in 1..Len(s)})

Reverse(s) == [i \in 1..Len(s) |-> s[Len(s) + 1 - i]]

SortDesc(s) == Reverse(SortAsc(s))

Contains(v, x) == \E i \in 1..Len(v) : v[i] = x

CountGE(s, v) == Cardinality({i \in 1..Len(s) : s[i] >= v})

CountLE(s, v) == Cardinality({i \in 1..Len(s) : s[i] <= v})

\* s[from..to] with 1-based inclusive bounds, <<>> when the range is empty
Slice(s, from, to) == IF from > to THEN <<>> ELSE SubSeq(s, from, to)

----------------------------------------------------------------------------
\* error::Result

Ok(v) == [ok |-> TRUE, val |-> v]

Err(e) == [ok |-> FALSE, err |-> e]

----------------------------------------------------------------------------
\* parser::TotalModifier

KeepHi(n) == [tag |-> "KeepHi", n |-> n]

KeepLo(n) == [tag |-> "KeepLo", n |-> n]

DropHi(n) == [tag |-> "DropHi", n |-> n]

DropLo(n) == [tag |-> "DropLo", n |-> n]

TargetFailureDouble(t, f, d) == [tag |-> "TargetFailureDouble", t |-> t, f |-> f, d |-> d]

TargetEnum(v) == [tag |-> "TargetEnum", v |-> v]

Fudge == [tag |-> "Fudge"]

None(rule) == [tag |-> "None", rule |-> rule]

IsKeepDrop(m) == m.tag \in {"KeepHi", "KeepLo", "DropHi", "DropLo"}

\* prev_modifier is TotalModifier::None(Rule::explode) or None(Rule::i_explode)
AfterExplode(m) == m.tag = "None" /\ m.rule \in {"explode", "i_explode"}

----------------------------------------------------------------------------
\* f64 values: a literal or the exact result of one arithmetic operation on
\* literals and integers, held as <<numerator, denominator>>, denominator > 0

\* i64::MAX and i64::MIN, where the cast of an infinite f64 saturates and
\* beyond which integer arithmetic overflows. The integer is held at 16
\* bits, so that the exact result of one operation on two totals is a
\* number the model checker represents.
I64Max == 32767

I64Min == -32768

\* The two's complement value an overflowing operation stores when the
\* build does not check for overflow
Wrap(x) == ((x - I64Min) % (I64Max - I64Min + 1)) + I64Min

InRange(x) == I64Min <= x /\ x <= I64Max

\* `f as i64`: truncation toward zero; the cast saturates for an infinite
\* value (denominator 0) and gives 0 for NaN (0/0)
Trunc(q) ==
    IF q[2] = 0 THEN (IF q[1] > 0 THEN I64Max ELSE IF q[1] < 0 THEN I64Min ELSE 0)
    ELSE IF q[1] >= 0 THEN q[1] \div q[2] ELSE -((-q[1]) \div q[2])

NoConstant == <<>>

----------------------------------------------------------------------------
\* rollresult::RollHistory

Roll(dice) == [kind |-> "Roll", dice |-> dice]

FudgeRoll(dice) == [kind |-> "Fudge", dice |-> dice]

ReRolls(chains) == [kind |-> "ReRolls", chains |-> chains]

ValueInt(i) == [kind |-> "Value", float |-> FALSE, i |-> i]

ValueFloat(q) == [kind |-> "Value", float |-> TRUE, f |-> q]

Separator(op) == [kind |-> "Separator", op |-> op]

OpenParenthesis == [kind |-> "OpenParenthesis"]

CloseParenthesis == [kind |-> "CloseParenthesis"]

\* Value::get_value
get_value(h) == IF h.float THEN Trunc(h.f) ELSE h.i

----------------------------------------------------------------------------
\* rollresult::SingleRollResult

new == [total |-> 0, history |-> <<>>, dirty |-> TRUE, constant |-> NoConstant]

with_total(total) ==
    [total |-> total, history |-> <<ValueInt(total)>>, dirty |-> FALSE,
     constant |-> NoConstant]

with_float(f) ==
    [total |-> Trunc(f), history |-> <<ValueFloat(f)>>, dirty |-> FALSE,
     constant |-> f]

add_history(self, history, is_fudge) ==
    [self EXCEPT !.dirty = TRUE,
                 !.history = Append(@, IF is_fudge THEN FudgeRoll(SortDesc(history))
                                       ELSE Roll(SortDesc(history)))]

\* Called by compute_reroll; its definition is not among the source files.
\* Modelled from the specification: the chains are "recorded as a
\* reroll-chain history entry", and "any history append sets dirty".
add_rerolled_history(self, chains) ==
    [self EXCEPT !.dirty = TRUE, !.history = Append(@, ReRolls(chains))]

\* Called by compute for a block; its definition is not among the source
\* files. Modelled from the specification: the history is marked "with
\* open/close-parenthesis brackets for display".
add_parenthesis(self) ==
    [self EXCEPT !.history = <<OpenParenthesis>> \o @ \o <<CloseParenthesis>>]

\* The values one history step contributes to the total
FlatOf(h) ==
    CASE h.kind = "Roll" -> h.dice
      [] h.kind = "Fudge" -> h.dice
      [] h.kind = "Value" -> <<get_value(h)>>
      [] OTHER -> <<>>

RECURSIVE Flatten(_)
Flatten(history) ==
    IF Len(history) <= 1 THEN (IF history = <<>> THEN <<>> ELSE FlatOf(history[1]))
    ELSE Flatten(SubSeq(history, 1, Len(history) \div 2))
         \o Flatten(SubSeq(history, Len(history) \div 2 + 1, Len(history)))

\* The slice of the sorted values a modifier keeps
SliceOf(flat, m) ==
    CASE m.tag = "KeepHi" -> Slice(flat, Len(flat) - m.n + 1, Len(flat))
      [] m.tag = "KeepLo" -> Slice(flat, 1, m.n)
      [] m.tag = "DropHi" -> Slice(flat, 1, Len(flat) - m.n)
      [] m.tag = "DropLo" -> Slice(flat, m.n + 1, Len(flat))
      [] OTHER -> flat

TargetScore(x, t, f, d) ==
    IF d > 0 /\ x >= d THEN 2
    ELSE IF t > 0 /\ x >= t THEN 1
    ELSE IF f > 0 /\ x <= f THEN -1
    ELSE 0

EnumScore(x, v) == IF Contains(v, x) THEN 1 ELSE 0

\* FudgeScore splitting the faces in two halves
FudgeScoreHalves(x) == IF x <= 3 THEN -1 ELSE 1

FudgeScore(x) == IF x <= 2 THEN -1 ELSE IF x <= 4 THEN 0 ELSE 1

RECURSIVE FoldTotal(_, _)
FoldTotal(slice, m) ==
    IF slice = <<>> THEN 0
    ELSE IF Len(slice) = 1
    THEN (CASE m.tag = "TargetFailureDouble" -> TargetScore(slice[1], m.t, m.f, m.d)
            [] m.tag = "TargetEnum" -> EnumScore(slice[1], m.v)
            [] m.tag = "Fudge" -> FudgeScore(slice[1])
            [] OTHER -> slice[1])
    ELSE FoldTotal(SubSeq(slice, 1, Len(slice) \div 2), m)
         + FoldTotal(SubSeq(slice, Len(slice) \div 2 + 1, Len(slice)), m)

\* SingleRollResult::compute_total: the result updated and the value returned
compute_total(self, m) ==
    IF ~self.dirty THEN [self |-> self, ret |-> Ok(self.total)]
    ELSE LET flat == SortAsc(Flatten(self.history))
             clean == [self EXCEPT !.dirty = FALSE]
         IN IF IsKeepDrop(m) /\ m.n > Len(flat)
            THEN [self |-> clean, ret |-> Err("Not enough dice to keep or drop")]
            ELSE LET total == FoldTotal(SliceOf(flat, m), m)
                 IN [self |-> [clean EXCEPT !.total = total], ret |-> Ok(total)]

\* is_zero looking at the integer total only when there is no constant, and
\* never at the constant
is_zero_int_only(self) == self.constant = NoConstant /\ self.total = 0

\* SingleRollResult::is_zero
is_zero(self) ==
    IF self.constant # NoConstant THEN self.constant[1] = 0 ELSE self.total = 0

----------------------------------------------------------------------------
\* parser.rs: the options of a dice term. An option is
\* [rule, value, enum]: value = NoValue when the number is omitted, enum is
\* the list of a `t[...]` target.

Opt(rule, value) == [rule |-> rule, value |-> value, enum |-> <<>>]

OptEnum(enum) == [rule |-> "target_enum", value |-> NoValue, enum |-> enum]

\* extract_option_value(option).unwrap_or(sides)
ExplodeValue(option, sides) == IF option.value = NoValue THEN sides ELSE option.value

\* compute_explode: number of dice rolled
\* ExplodeNb with `x > value`: a die showing exactly the value does not explode
ExplodeNbStrict(r, option, sides) ==
    Cardinality({i \in 1..Len(r) : r[i] > ExplodeValue(option, sides)})

ExplodeNb(r, option, sides) == CountGE(r, ExplodeValue(option, sides))

\* compute_explode, with `batch` the nb dice rolled by roll_dice
compute_explode(self, sides, r, option, prev_modifier, batch) ==
    LET nb == ExplodeNb(r, option, sides)
        h1 == IF ~AfterExplode(prev_modifier) THEN add_history(self, r, FALSE) ELSE self
    IN [rolls |-> IF nb > 0 THEN add_history(h1, batch, FALSE) ELSE h1,
        modifier |-> None("explode"),
        res |-> IF nb > 0 THEN batch ELSE r]

\* compute_i_explode before its loop: the history step and the first nb
i_explode_enter(self, sides, r, option, prev_modifier) ==
    [rolls |-> IF ~AfterExplode(prev_modifier) THEN add_history(self, r, FALSE) ELSE self,
     nb |-> ExplodeNb(r, option, sides),
     res |-> <<>>]

\* compute_i_explode: one turn of `while nb > 0`, with `batch` the dice rolled
\* i_explode_round that does not record the generation it rolled
i_explode_round_unrecorded(self, sides, option, batch) ==
    [rolls |-> self,
     nb |-> ExplodeNb(batch, option, sides),
     res |-> batch]

i_explode_round(self, sides, option, batch) ==
    [rolls |-> add_history(self, batch, FALSE),
     nb |-> ExplodeNb(batch, option, sides),
     res |-> batch]

\* compute_reroll: the chain of one die, `k` counting the dice rerolled so far
RECURSIVE RerollChains(_, _, _, _)
RerollChains(r, value, batch, k) ==
    IF r = <<>> THEN <<>>
    ELSE IF Head(r) <= value
         THEN <<(<<Head(r), batch[k + 1]>>)>> \o RerollChains(Tail(r), value, batch, k + 1)
         ELSE <<(<<Head(r)>>)>> \o RerollChains(Tail(r), value, batch, k)

Last(chain) == chain[Len(chain)]

\* compute_reroll keeping the original face of a rerolled die in the set
compute_reroll_unreplaced(self, sides, r, option, batch) ==
    LET rerolls == RerollChains(r, option.value, batch, 0)
        has_rerolled == CountLE(r, option.value) > 0
        h1 == IF has_rerolled THEN add_rerolled_history(self, rerolls) ELSE self
    IN [rolls |-> add_history(h1, r, FALSE),
        modifier |-> None("reroll"),
        res |-> r]

\* compute_reroll, with `batch` the dice rolled one by one, in die order
compute_reroll(self, sides, r, option, batch) ==
    LET rerolls == RerollChains(r, option.value, batch, 0)
        res_new == [i \in 1..Len(r) |-> Last(rerolls[i])]
        has_rerolled == CountLE(r, option.value) > 0
        h1 == IF has_rerolled THEN add_rerolled_history(self, rerolls) ELSE self
    IN [rolls |-> add_history(h1, res_new, FALSE),
        modifier |-> None("reroll"),
        res |-> res_new]

\* compute_i_reroll after its map: the history step
i_reroll_exit(self, res_new, has_rerolled) ==
    [rolls |-> IF has_rerolled THEN add_history(self, res_new, FALSE) ELSE self,
     modifier |-> None("i_reroll"),
     res |-> res_new]

\* compute_option, first match: the keep/drop and target arms
option_modifier(option) ==
    CASE option.rule = "keep_hi" -> KeepHi(option.value)
      [] option.rule = "keep_lo" -> KeepLo(option.value)
      [] option.rule = "drop_hi" -> DropHi(option.value)
      [] option.rule = "drop_lo" -> DropLo(option.value)
      [] option.rule = "target" -> TargetFailureDouble(option.value, 0, 0)
      [] option.rule = "target_enum" -> TargetEnum(option.enum)
      [] option.rule = "double_target" -> TargetFailureDouble(0, 0, option.value)
      [] option.rule = "failure" -> TargetFailureDouble(0, option.value, 0)

\* compute_option, keep/drop arms: the history step taken when none exists
keep_drop_history(self, r) ==
    IF self.history = <<>> THEN add_history(self, r, FALSE) ELSE self

\* compute_option, second match: the n used to cut the working set
option_n(m, r) ==
    CASE m.tag \in {"KeepHi", "KeepLo"} -> IF m.n > Len(r) THEN Len(r) ELSE m.n
      [] m.tag \in {"DropHi", "DropLo"} -> IF m.n > Len(r) THEN 0 ELSE m.n
      [] OTHER -> 0

\* compute_option, after the first match: sort and cut the working set
option_res(m, r) ==
    LET n == option_n(m, r)
        sorted == SortAsc(r)
    IN CASE m.tag = "KeepHi" -> Slice(sorted, Len(sorted) - n + 1, Len(sorted))
         [] m.tag = "KeepLo" -> Slice(sorted, 1, n)
         [] m.tag = "DropHi" -> Slice(sorted, 1, Len(sorted) - n)
         [] m.tag = "DropLo" -> Slice(sorted, n + 1, Len(sorted))
         [] OTHER -> sorted

\* compute_roll: merging an incoming target/failure/double-target modifier
\* into the accumulated one
\* merge_target keeping a field that is already set
merge_target_keep(old, inc) ==
    IF inc.t > 0 THEN TargetFailureDouble(IF old.t > 0 THEN old.t ELSE inc.t, old.f, old.d)
    ELSE IF inc.f > 0 THEN TargetFailureDouble(old.t, IF old.f > 0 THEN old.f ELSE inc.f, old.d)
    ELSE TargetFailureDouble(old.t, old.f, IF old.d > 0 THEN old.d ELSE inc.d)

merge_target(old, inc) ==
    IF inc.t > 0 THEN TargetFailureDouble(inc.t, old.f, old.d)
    ELSE IF inc.f > 0 THEN TargetFailureDouble(old.t, inc.f, old.d)
    ELSE TargetFailureDouble(old.t, old.f, inc.d)

\* compute_roll, body of the option loop after compute_option returned
\* (opt_res.res, opt_res.modifier): the new modifier and history
merge_option(self, prev_modifier, opt_res, opt_modifier) ==
    CASE opt_modifier.tag = "TargetFailureDouble" /\ prev_modifier.tag = "TargetFailureDouble" ->
            [rolls |-> self, modifier |-> merge_target(prev_modifier, opt_modifier)]
      [] opt_modifier.tag = "TargetFailureDouble" /\ prev_modifier.tag # "TargetFailureDouble" ->
            [rolls |-> add_history(self, opt_res, FALSE), modifier |-> opt_modifier]
      [] opt_modifier.tag = "TargetEnum" ->
            [rolls |-> add_history(self, opt_res, FALSE), modifier |-> opt_modifier]
      [] OTHER -> [rolls |-> self, modifier |-> opt_modifier]

----------------------------------------------------------------------------
\* f64 arithmetic on <<numerator, denominator>> pairs

FromInt(i) == <<i, 1>>

QAdd(a, b) == <<a[1] * b[2] + b[1] * a[2], a[2] * b[2]>>

QSub(a, b) == <<a[1] * b[2] - b[1] * a[2], a[2] * b[2]>>

QMul(a, b) == <<a[1] * b[1], a[2] * b[2]>>

\* a / b; dividing by zero gives an infinite value or NaN (denominator 0)
QDiv(a, b) ==
    IF b[1] >= 0 THEN <<a[1] * b[2], a[2] * b[1]>> ELSE <<-(a[1] * b[2]), a[2] * (-b[1])>>

\* i64 division truncates toward zero (b # 0: dividing by zero panics)
IDiv(a, b) == Trunc(QDiv(FromInt(a), FromInt(b)))

\* The operand of the floating operation: the constant when there is one
\* Operand using the truncated total of an operand that has a constant
OperandTotal(self) == FromInt(self.total)

Operand(self) == IF self.constant # NoConstant THEN self.constant ELSE FromInt(self.total)

----------------------------------------------------------------------------
\* singlerollresult.rs: the arithmetic combinators

merge_history(left, right, op) ==
    IF right.history # <<>>
    THEN [left EXCEPT !.history = Append(@, Separator(op)) \o right.history]
    ELSE left

Combined(left, right, op, total) ==
    [total |-> total, history |-> merge_history(left, right, op).history,
     dirty |-> FALSE, constant |-> NoConstant]

BothInt(a, b) == a.constant = NoConstant /\ b.constant = NoConstant

\* The exact result of the integer arm of an operator; self.total / rhs.total
\* overflows for i64::MIN / -1 only
Exact(rule, self, rhs) ==
    CASE rule = "add" -> self.total + rhs.total
      [] rule = "sub" -> self.total - rhs.total
      [] rule = "mul" -> self.total * rhs.total
      [] rule = "div" -> IF self.total = I64Min /\ rhs.total = -1 THEN I64Max + 1 ELSE 0

\* The integer arm of the operator overflows
Overflows(rule, self, rhs) == BothInt(self, rhs) /\ ~InRange(Exact(rule, self, rhs))

add(self, rhs) ==
    Combined(self, rhs, " + ",
             IF BothInt(self, rhs) THEN Wrap(self.total + rhs.total)
             ELSE Trunc(QAdd(Operand(self), Operand(rhs))))

sub(self, rhs) ==
    Combined(self, rhs, " - ",
             IF BothInt(self, rhs) THEN Wrap(self.total - rhs.total)
             ELSE Trunc(QSub(Operand(self), Operand(rhs))))

mul(self, rhs) ==
    Combined(self, rhs, " * ",
             IF BothInt(self, rhs) THEN Wrap(self.total * rhs.total)
             ELSE Trunc(QMul(Operand(self), Operand(rhs))))

div(self, rhs) ==
    Combined(self, rhs, " / ",
             IF BothInt(self, rhs) THEN IDiv(self.total, rhs.total)
             ELSE Trunc(QDiv(Operand(self), Operand(rhs))))

----------------------------------------------------------------------------
\* parser.rs: the expression walker. An expression is the sequence of pairs
\* the grammar hands over: operands (integer, float, dice, block)
\* separated by operators.

Integer(i) == [kind |-> "integer", i |-> i]

Float(q) == [kind |-> "float", f |-> q]

Dice(count, sides, mods) ==
    [kind |-> "dice", count |-> count, sides |-> sides, fudge |-> FALSE, mods |-> mods]

FudgeDice(count, mods) ==
    [kind |-> "dice", count |-> count, sides |-> 6, fudge |-> TRUE, mods |-> mods]

Block(expr) == [kind |-> "block_expr", expr |-> expr]

Op(rule) == [kind |-> "op", rule |-> rule]

\* End of a block: compute(expr, rng, true) returns
BlockClose == [kind |-> "close"]

\* get_climber: the precedence of an infix operator (pest's PrattParser
\* gives each .op() call the next level; both levels are Assoc::Left)
\* One level for the four operators
PrecFlat(rule) == 10

Prec(rule) == IF rule \in {"add", "sub"} THEN 10 ELSE 20

\* Climber::climb: the order in which PrattParser::parse calls the primary
\* and infix closures, as a postfix sequence. PrattExpr is the parser's
\* expr(rbp); PrattLoop its `while rbp < lbp(next)` loop.
RECURSIVE PrattExpr(_, _, _)
RECURSIVE PrattLoop(_, _, _, _)
PrattExpr(toks, pos, rbp) ==
    LET t == toks[pos]
        nud == IF t.kind = "block_expr"
               THEN PrattExpr(t.expr, 1, 0).out \o <<BlockClose>>
               ELSE <<t>>
    IN PrattLoop(toks, pos + 1, rbp, nud)

\* The right operand's closures before the left operand's
PrattLoopRightFirst(toks, pos, rbp, lhs) ==
    IF pos > Len(toks) \/ ~(rbp < Prec(toks[pos].rule))
    THEN [out |-> lhs, pos |-> pos]
    ELSE LET r == PrattExpr(toks, pos + 1, Prec(toks[pos].rule))
         IN PrattLoop(toks, r.pos, rbp, r.out \o lhs \o <<toks[pos]>>)

PrattLoop(toks, pos, rbp, lhs) ==
    IF pos > Len(toks) \/ ~(rbp < Prec(toks[pos].rule))
    THEN [out |-> lhs, pos |-> pos]
    ELSE LET r == PrattExpr(toks, pos + 1, Prec(toks[pos].rule))
         IN PrattLoop(toks, r.pos, rbp, lhs \o r.out \o <<toks[pos]>>)

\* The closures compute runs for the command's expression, in order
Prog == PrattExpr(cmd.expr, 1, 0).out

\* lib.rs: a command is one expression, repeated or not
NoRep == [on |-> FALSE, number |-> 0, sum_all |-> FALSE, sort |-> FALSE]

Rep(number, sum_all, sort) ==
    [on |-> TRUE, number |-> number, sum_all |-> sum_all, sort |-> sort]

----------------------------------------------------------------------------
\* The record of what the evaluation did

RollEv(sides, value) == [ev |-> "roll", sides |-> sides, value |-> value]

FailEv(what) == [ev |-> "fail", what |-> what]

\* A division the infix closure was handed an Ok right operand for: the
\* divisor Div::div uses, and whether lhs / rhs was computed
DivEv(rhs, computed) == [ev |-> "div", divisor |-> Operand(rhs), computed |-> computed]

\* An integer operation whose exact result is not an i64: the build
\* checked it and panicked, or stored the wrapped total
OverflowEv(rule, checked) == [ev |-> "overflow", rule |-> rule, checked |-> checked]

\* A keep or drop option is applied to a working set of that size
KeepDropEv(n, size) == [ev |-> "keepdrop", n |-> n, size |-> size]

\* parser.rs roll_dice: one roll_single_die(sides) call per die
roll_dice(l, sides, batch) == l \o [i \in 1..Len(batch) |-> RollEv(sides, batch[i])]

\* DiceRollSource::roll_single_die returns a face of the die; the values
\* `num` calls can return
\* Batches with the range (0..=num): one die too many
BatchesInclusive(num, sides) == [1..(num + 1) -> 1..sides]

Batches(num, sides) == IF num = 0 THEN {<<>>} ELSE [1..num -> 1..sides]

NoLoop == [nb |-> 0, idx |-> 0, rounds |-> 0]

NoOutcome == [kind |-> "none"]

----------------------------------------------------------------------------
\* Actions

\* The dice term compute_roll is working on
Term == Prog[ip]

TermSides == IF Term.fudge THEN 6 ELSE Term.sides

\* compute_roll returns `ret` to the climber
ReturnRoll(self, r, m, ret, l) ==
    /\ stack' = Append(stack, ret)
    /\ ip' = ip + 1
    /\ pc' = "walk"
    /\ rolls' = self
    /\ res' = r
    /\ modifier' = m
    /\ opts' = <<>>
    /\ loop' = NoLoop
    /\ log' = IF ret.ok THEN l ELSE Append(l, FailEv(ret.err))
    /\ UNCHANGED <<cmd, results, outcome>>

\* compute_roll: rolls.compute_total(modifier)?; Ok(rolls)
TotalAndReturn(self, r, m, l) ==
    LET t == compute_total(self, m)
    IN ReturnRoll(t.self, r, m, IF t.ret.ok THEN Ok(t.self) ELSE Err(t.ret.err), l)

\* compute_roll: the end of one turn of the option loop. compute_option cuts
\* the working set, the modifier is merged, and after the last option the
\* total is computed.
OptionDone(self, r, opt_modifier, l) ==
    LET cut == option_res(opt_modifier, r)
        m == merge_option(self, modifier, cut, opt_modifier)
    IN IF Tail(opts) # <<>>
       THEN /\ rolls' = m.rolls
            /\ res' = cut
            /\ modifier' = m.modifier
            /\ opts' = Tail(opts)
            /\ pc' = "term"
            /\ loop' = NoLoop
            /\ log' = l
            /\ UNCHANGED <<cmd, ip, stack, results, outcome>>
       ELSE TotalAndReturn(m.rolls, cut, m.modifier, l)

\* Roller::roll_with_source up to the first closure of the climber;
\* process_repeated_expr refuses a count <= 0
RollWithSource ==
    /\ pc = "start"
    /\ IF cmd.rep.on /\ cmd.rep.number <= 0
       THEN /\ pc' = "done"
            /\ outcome' = [kind |-> "err", err |-> "Can't repeat 0 times or negatively"]
            /\ log' = Append(log, FailEv("Can't repeat 0 times or negatively"))
       ELSE /\ pc' = "walk"
            /\ UNCHANGED <<outcome, log>>
    /\ UNCHANGED <<cmd, ip, stack, rolls, res, modifier, opts, loop, results>>
    /\ UNCHANGED <<threads, climber>>

\* compute, primary closure: Rule::integer
PrimaryInteger ==
    /\ pc = "walk" /\ ip <= Len(Prog) /\ Prog[ip].kind = "integer"
    /\ stack' = Append(stack, Ok(with_total(Prog[ip].i)))
    /\ ip' = ip + 1
    /\ UNCHANGED <<cmd, pc, rolls, res, modifier, opts, loop, log, results, outcome>>
    /\ UNCHANGED <<threads, climber>>

\* compute, primary closure: Rule::float
PrimaryFloat ==
    /\ pc = "walk" /\ ip <= Len(Prog) /\ Prog[ip].kind = "float"
    /\ stack' = Append(stack, Ok(with_float(Prog[ip].f)))
    /\ ip' = ip + 1
    /\ UNCHANGED <<cmd, pc, rolls, res, modifier, opts, loop, log, results, outcome>>
    /\ UNCHANGED <<threads, climber>>

\* A limit that already refuses MAX_NUMBER_OF_DICE dice
ExceedsDiceInclusive(n) == n >= MAX_NUMBER_OF_DICE

\* compute_roll: `if n > MAX_NUMBER_OF_DICE`
ExceedsDice(n) == n > MAX_NUMBER_OF_DICE

\* compute, primary closure: Rule::dice. compute_roll up to its option loop.
ComputeRoll ==
    /\ pc = "walk" /\ ip <= Len(Prog) /\ Prog[ip].kind = "dice"
    /\ LET number_of_dice == IF Term.count = NoValue THEN 1 ELSE Term.count
       IN IF ExceedsDice(number_of_dice)
          THEN ReturnRoll(new, <<>>, None("expr"),
                          Err("Exceed maximum allowed number of dices"), log)
          ELSE IF TermSides = 0
          THEN ReturnRoll(new, <<>>, None("expr"), Err("Dice can't have 0 sides"), log)
          ELSE IF TermSides > MAX_DICE_SIDES
          THEN ReturnRoll(new, <<>>, None("expr"), Err("Dice can't have more than"), log)
          ELSE \E batch \in Batches(number_of_dice, TermSides) :
                 LET l == roll_dice(log, TermSides, batch)
                 IN IF Term.fudge
                    THEN TotalAndReturn(add_history(new, batch, TRUE), batch, Fudge, l)
                    ELSE IF Term.mods = <<>>
                    THEN TotalAndReturn(add_history(new, batch, FALSE), batch,
                                        None("expr"), l)
                    ELSE /\ rolls' = new
                         /\ res' = batch
                         /\ modifier' = None("expr")
                         /\ opts' = Term.mods
                         /\ pc' = "term"
                         /\ log' = l
                         /\ UNCHANGED <<cmd, ip, stack, loop, results, outcome>>
    /\ UNCHANGED <<threads, climber>>

\* compute_option: Rule::explode
Explode ==
    /\ pc = "term" /\ Head(opts).rule = "explode"
    /\ \E batch \in Batches(ExplodeNb(res, Head(opts), TermSides), TermSides) :
         LET o == compute_explode(rolls, TermSides, res, Head(opts), modifier, batch)
         IN OptionDone(o.rolls, o.res, o.modifier, roll_dice(log, TermSides, batch))
    /\ UNCHANGED <<threads, climber>>

\* compute_option: Rule::i_explode, up to the `while nb > 0` loop
IExplodeEnter ==
    /\ pc = "term" /\ Head(opts).rule = "i_explode"
    /\ LET e == i_explode_enter(rolls, TermSides, res, Head(opts), modifier)
       IN IF e.nb > 0
          THEN /\ rolls' = e.rolls
               /\ res' = e.res
               /\ loop' = [NoLoop EXCEPT !.nb = e.nb]
               /\ pc' = "i_explode"
               /\ UNCHANGED <<cmd, ip, stack, modifier, opts, log, results, outcome>>
          ELSE OptionDone(e.rolls, e.res, None("i_explode"), log)
    /\ UNCHANGED <<threads, climber>>

\* compute_i_explode: one turn of the `while nb > 0` loop
IExplodeRound(max) ==
    /\ pc = "i_explode" /\ loop.rounds < max
    /\ \E batch \in Batches(loop.nb, TermSides) :
         LET r == i_explode_round(rolls, TermSides, Head(opts), batch)
             l == roll_dice(log, TermSides, batch)
         IN IF r.nb > 0
            THEN /\ rolls' = r.rolls
                 /\ res' = r.res
                 /\ loop' = [loop EXCEPT !.nb = r.nb, !.rounds = @ + 1]
                 /\ log' = l
                 /\ UNCHANGED <<cmd, pc, ip, stack, modifier, opts, results, outcome>>
            ELSE OptionDone(r.rolls, r.res, None("i_explode"), l)
    /\ UNCHANGED <<threads, climber>>

\* compute_option: Rule::reroll
Reroll ==
    /\ pc = "term" /\ Head(opts).rule = "reroll"
    /\ \E batch \in Batches(CountLE(res, Head(opts).value), TermSides) :
         LET o == compute_reroll(rolls, TermSides, res, Head(opts), batch)
         IN OptionDone(o.rolls, o.res, o.modifier, roll_dice(log, TermSides, batch))
    /\ UNCHANGED <<threads, climber>>

\* The first die from position i on that compute_i_reroll has to reroll,
\* Len(r) + 1 when there is none
NextLow(r, value, i) ==
    IF \E j \in i..Len(r) : r[j] <= value
    THEN CHOOSE j \in i..Len(r) : r[j] <= value /\ \A k \in i..(j - 1) : r[k] > value
    ELSE Len(r) + 1

\* compute_option: Rule::i_reroll, up to the first `while x.res <= value`
IRerollEnter ==
    /\ pc = "term" /\ Head(opts).rule = "i_reroll"
    /\ LET first == NextLow(res, Head(opts).value, 1)
       IN IF first <= Len(res)
          THEN /\ loop' = [NoLoop EXCEPT !.idx = first]
               /\ pc' = "i_reroll"
               /\ UNCHANGED <<cmd, ip, stack, rolls, res, modifier, opts, log, results,
                              outcome>>
          ELSE LET o == i_reroll_exit(rolls, res, FALSE)
               IN OptionDone(o.rolls, o.res, o.modifier, log)
    /\ UNCHANGED <<threads, climber>>

\* compute_i_reroll: one turn of `while x.res <= value` for the die at
\* loop.idx; the map goes on to the next die once the face exceeds value
IRerollStep(max) ==
    /\ pc = "i_reroll" /\ loop.rounds < max
    /\ \E x \in 1..TermSides :
         LET r == [res EXCEPT ![loop.idx] = x]
             l == Append(log, RollEv(TermSides, x))
             next == NextLow(r, Head(opts).value, loop.idx + 1)
         IN IF x <= Head(opts).value
            THEN /\ res' = r
                 /\ loop' = [loop EXCEPT !.rounds = @ + 1]
                 /\ log' = l
                 /\ UNCHANGED <<cmd, pc, ip, stack, rolls, modifier, opts, results, outcome>>
            ELSE IF next <= Len(r)
            THEN /\ res' = r
                 /\ loop' = [loop EXCEPT !.idx = next, !.rounds = 0]
                 /\ log' = l
                 /\ UNCHANGED <<cmd, pc, ip, stack, rolls, modifier, opts, results, outcome>>
            ELSE LET o == i_reroll_exit(rolls, r, TRUE)
                 IN OptionDone(o.rolls, o.res, o.modifier, l)
    /\ UNCHANGED <<threads, climber>>

\* compute_option: Rule::keep_hi, keep_lo, drop_hi, drop_lo
KeepDrop ==
    /\ pc = "term" /\ Head(opts).rule \in {"keep_hi", "keep_lo", "drop_hi", "drop_lo"}
    /\ OptionDone(keep_drop_history(rolls, res), res, option_modifier(Head(opts)),
                  Append(log, KeepDropEv(Head(opts).value, Len(res))))
    /\ UNCHANGED <<threads, climber>>

\* compute_option: Rule::target, double_target, failure
Target ==
    /\ pc = "term"
    /\ Head(opts).rule \in {"target", "target_enum", "double_target", "failure"}
    /\ OptionDone(rolls, res, option_modifier(Head(opts)), log)
    /\ UNCHANGED <<threads, climber>>

\* compute, infix closure
Infix ==
    /\ pc = "walk" /\ ip <= Len(Prog) /\ Prog[ip].kind = "op"
    /\ LET lhs == stack[Len(stack) - 1]
           rhs == stack[Len(stack)]
           rule == Prog[ip].rule
           zero == lhs.ok /\ rhs.ok /\ rule = "div" /\ is_zero(rhs.val)
           ret == IF lhs.ok /\ rhs.ok
                  THEN CASE rule = "add" -> Ok(add(lhs.val, rhs.val))
                         [] rule = "sub" -> Ok(sub(lhs.val, rhs.val))
                         [] rule = "mul" -> Ok(mul(lhs.val, rhs.val))
                         [] rule = "div" -> IF zero THEN Err("Can't divide by zero")
                                            ELSE Ok(div(lhs.val, rhs.val))
                  ELSE IF ~lhs.ok THEN lhs ELSE rhs
           overflow == lhs.ok /\ rhs.ok /\ ~zero /\ Overflows(rule, lhs.val, rhs.val)
           l == IF zero
                THEN log \o <<DivEv(rhs.val, FALSE), FailEv("Can't divide by zero")>>
                ELSE IF rhs.ok /\ rule = "div"
                THEN Append(log, DivEv(rhs.val, lhs.ok))
                ELSE log
       IN /\ stack' = Append(SubSeq(stack, 1, Len(stack) - 2), ret)
          \* an overflowing +, - or * panics in a build with overflow checks
          \* and stores the wrapped total in a build without; i64::MIN / -1
          \* panics in both
          /\ \E checked \in (IF ~overflow THEN {FALSE}
                             ELSE IF rule = "div" THEN {TRUE} ELSE BOOLEAN) :
               /\ log' = IF overflow THEN Append(l, OverflowEv(rule, checked)) ELSE l
               \* an i64 division by zero panics
               /\ pc' = IF checked \/ (lhs.ok /\ rhs.ok /\ rule = "div" /\ ~zero
                                       /\ BothInt(lhs.val, rhs.val) /\ rhs.val.total = 0)
                        THEN "panic" ELSE pc
    /\ ip' = ip + 1
    /\ UNCHANGED <<cmd, rolls, res, modifier, opts, loop, results, outcome>>
    /\ UNCHANGED <<threads, climber>>

\* compute, Rule::block_expr: compute(expr, rng, true) returns
BlockEnd ==
    /\ pc = "walk" /\ ip <= Len(Prog) /\ Prog[ip].kind = "close"
    /\ LET r == stack[Len(stack)]
       IN stack' = [stack EXCEPT ![Len(stack)] =
                        IF r.ok THEN Ok(add_parenthesis(r.val)) ELSE r]
    /\ ip' = ip + 1
    /\ UNCHANGED <<cmd, pc, rolls, res, modifier, opts, loop, log, results, outcome>>
    /\ UNCHANGED <<threads, climber>>

ErrOutcome(e) == [kind |-> "err", err |-> e]

SingleOutcome(v) == [kind |-> "single", val |-> v]

\* RollResult::new_repeated; total is <<>> for None, <<n>> for Some(n)
RepeatedOutcome(v, total) == [kind |-> "repeated", rolls |-> v, total |-> total]

\* A range that also runs for i = number
MoreRoundsInclusive(i, number) == i <= number

\* process_repeated_expr: (0..number), i being the next index
MoreRounds(i, number) == i < number

\* A fold that counts the last total twice
RECURSIVE SumTotalsLastTwice(_)
SumTotalsLastTwice(v) ==
    IF v = <<>> THEN 0
    ELSE IF Len(v) = 1 THEN Head(v).total + Head(v).total
    ELSE Head(v).total + SumTotalsLastTwice(Tail(v))

RECURSIVE SumTotals(_)
SumTotals(v) == IF v = <<>> THEN 0 ELSE Head(v).total + SumTotals(Tail(v))

\* A partial sum of the fold is not an i64
SumOverflows(v) == \E k \in 1..Len(v) : ~InRange(SumTotals(SubSeq(v, 1, k)))

\* results.sort_unstable_by(total): the orders an unstable sort may return
SortedOrders(v) ==
    {[i \in 1..Len(v) |-> v[p[i]]] :
        p \in {q \in [1..Len(v) -> 1..Len(v)] :
                 /\ \A i, j \in 1..Len(v) : i # j => q[i] # q[j]
                 /\ \A i, j \in 1..Len(v) : i < j => v[q[i]].total <= v[q[j]].total}}

\* compute returns to roll_with_source or to process_repeated_expr, which
\* runs the expression again or builds the repeated result
Return ==
    /\ pc = "walk" /\ ip > Len(Prog)
    /\ LET r == stack[Len(stack)]
       IN IF ~r.ok
          THEN /\ outcome' = ErrOutcome(r.err)
               /\ pc' = "done"
               /\ UNCHANGED <<ip, stack, results, log>>
          ELSE IF ~cmd.rep.on
          THEN /\ outcome' = SingleOutcome(r.val)
               /\ pc' = "done"
               /\ UNCHANGED <<ip, stack, results, log>>
          ELSE IF MoreRounds(Len(results) + 1, cmd.rep.number)
          THEN /\ results' = Append(results, r.val)
               /\ ip' = 1
               /\ stack' = <<>>
               /\ UNCHANGED <<pc, outcome, log>>
          ELSE /\ results' = Append(results, r.val)
               \* the fold acc + total of the sum overflows like the operators
               /\ \E v \in (IF cmd.rep.sort THEN SortedOrders(results')
                            ELSE {results'}),
                     checked \in (IF cmd.rep.sum_all /\ SumOverflows(results')
                                  THEN BOOLEAN ELSE {FALSE}) :
                    /\ outcome' = IF checked THEN outcome
                                  ELSE RepeatedOutcome(v, IF cmd.rep.sum_all
                                                          THEN <<Wrap(SumTotals(v))>>
                                                          ELSE <<>>)
                    /\ pc' = IF checked THEN "panic" ELSE "done"
                    /\ log' = IF cmd.rep.sum_all /\ SumOverflows(results')
                              THEN Append(log, OverflowEv("sum", checked)) ELSE log
               /\ UNCHANGED <<ip, stack>>
    /\ UNCHANGED <<cmd, rolls, res, modifier, opts, loop>>
    /\ UNCHANGED <<threads, climber>>

----------------------------------------------------------------------------
\* parser.rs get_climber and Climber::climb: the operator table shared by
\* the threads of the process

\* ONCE is incomplete, PREC_CLIMBER is null, nobody holds the RwLock;
\* `built` counts the runs of the call_once closure, `early` tells whether
\* PREC_CLIMBER was ever dereferenced before the closure had completed
NoClimber ==
    [once |-> "incomplete", ptr |-> FALSE, built |-> 0, readers |-> 0, writers |-> 0,
     early |-> FALSE]

NoThreads == <<>>


----------------------------------------------------------------------------
\* The commands evaluated

Options ==
    {Opt(r, v) : r \in {"explode", "i_explode"}, v \in {NoValue} \cup 2..MaxSides}
    \cup {Opt("reroll", v) : v \in 1..MaxSides}
    \cup {Opt("i_reroll", v) : v \in 1..(MaxSides - 1)}
    \cup {Opt(r, n) : r \in {"keep_hi", "keep_lo", "drop_hi", "drop_lo"}, n \in 0..(MaxDice + 1)}
    \cup {Opt(r, v) : r \in {"target", "double_target", "failure"}, v \in 0..MaxSides}
    \cup {OptEnum(e) : e \in {<<1>>, <<2, 3>>, <<2, 2>>}}

\* The options of the longer option lists
FewOptions ==
    {Opt("explode", NoValue), Opt("reroll", 1), Opt("keep_hi", 1), Opt("keep_hi", 2),
     Opt("drop_lo", 1), Opt("target", 2), Opt("target", 3), Opt("double_target", 3),
     Opt("failure", 1)}

Single(expr) == [expr |-> expr, rep |-> NoRep]

\* One dice term
TermCmds ==
    {Single(<<Dice(c, s, m)>>) : c \in 1..MaxDice, s \in 2..MaxSides,
                                 m \in UNION {[1..k -> Options] : k \in 0..MaxMods}}
    \cup {Single(<<Dice(MaxDice, MaxSides, m)>>) : m \in [1..(MaxMods + 1) -> FewOptions]}
    \cup {Single(<<Dice(c, s, <<>>)>>) : c \in {NoValue, 0, 1, MaxDice}, s \in {0, 1}}
    \cup {Single(<<FudgeDice(c, m)>>) :
            c \in {NoValue} \cup 0..MaxDice, m \in UNION {[1..k -> FewOptions] : k \in 0..1}}

InitWith(cmds) ==
    /\ cmd \in cmds
    /\ pc = "start"
    /\ ip = 1
    /\ stack = <<>>
    /\ rolls = new
    /\ res = <<>>
    /\ modifier = None("expr")
    /\ opts = <<>>
    /\ loop = NoLoop
    /\ log = <<>>
    /\ results = <<>>
    /\ outcome = NoOutcome
    /\ threads = NoThreads
    /\ climber = NoClimber

Init == InitWith(TermCmds)

Next ==
    \/ RollWithSource
    \/ ComputeRoll
    \/ Explode
    \/ IExplodeEnter
    \/ IExplodeRound(MaxRounds)
    \/ Reroll
    \/ IRerollEnter
    \/ IRerollStep(MaxRounds)
    \/ KeepDrop
    \/ Target
    \/ Return

Spec == Init /\ [][Next]_vars

----------------------------------------------------------------------------
\* Expressions: operands joined by operators, blocks, repetitions

\* 0, 1, 2, 0.0, 0.5, 1d2, the failing terms 1d0 (no sides) and 1d2 K2
\* (keeps more dice than there are)
Leaves ==
    {Integer(0), Integer(1), Integer(2), Float(<<0, 1>>), Float(<<1, 2>>),
     Dice(1, 2, <<>>), Dice(1, 0, <<>>), Dice(1, 2, <<Opt("keep_hi", 2)>>)}

Ops == {Op(r) : r \in {"add", "sub", "mul", "div"}}

\* The operands of the longer expressions
FewLeaves ==
    {Integer(0), Integer(2), Float(<<1, 2>>), Dice(1, 2, <<>>), Dice(1, 0, <<>>)}

BinaryOf(leaves) == {<<a, o, b>> : a \in leaves, o \in Ops, b \in leaves}

\* a o b p c, (a o b) p c and a o (b p c)
Ternary ==
    {<<a, o, b, p, c>> : a \in FewLeaves, o \in Ops, b \in FewLeaves, p \in Ops,
                         c \in FewLeaves}
    \cup {<<Block(e), p, c>> : e \in BinaryOf(FewLeaves), p \in Ops, c \in FewLeaves}
    \cup {<<a, o, Block(e)>> : a \in FewLeaves, o \in Ops, e \in BinaryOf(FewLeaves)}

\* The expressions that are repeated: 1d2, 1d2 + 1d2, 1d0 + 1d2, 2 / (1d2 - 1)
Repeated ==
    {<<Dice(1, 2, <<>>)>>,
     <<Dice(1, 2, <<>>), Op("add"), Dice(1, 2, <<>>)>>,
     <<Dice(1, 0, <<>>), Op("add"), Dice(1, 2, <<>>)>>,
     <<Integer(2), Op("div"), Block(<<Dice(1, 2, <<>>), Op("sub"), Integer(1)>>)>>}

\* process_repeated_expr: (sum_all, sort) of Rule::number, Rule::add and
\* Rule::sort
Qualifiers == {<<FALSE, FALSE>>, <<TRUE, FALSE>>, <<FALSE, TRUE>>}

ExprCmds ==
    {Single(e) : e \in BinaryOf(Leaves) \cup Ternary}
    \cup {[expr |-> e, rep |-> Rep(n, q[1], q[2])] :
            e \in Repeated, n \in (-1)..MaxRepeat, q \in Qualifiers}

InitExpr == InitWith(ExprCmds)

NextExpr ==
    \/ RollWithSource
    \/ PrimaryInteger
    \/ PrimaryFloat
    \/ ComputeRoll
    \/ KeepDrop
    \/ Infix
    \/ BlockEnd
    \/ Return

SpecExpr == InitExpr /\ [][NextExpr]_vars

----------------------------------------------------------------------------
\* Two evaluations of one command, each against its own replay source
\* (IteratorDiceRollSource) built from the same values. The first
\* evaluation draws freely, which fixes the values of the sources; when it
\* has returned, the command is evaluated again from the start, with the
\* first evaluation kept beside the command in cmd.first.

HasFirst == "first" \in DOMAIN cmd

\* The values a log drew from its source, in order
ValuesOf(l) ==
    LET r == SelectSeq(l, LAMBDA e : e.ev = "roll")
    IN [i \in 1..Len(r) |-> r[i].value]

\* The values of the second source
Tape == IF HasFirst THEN ValuesOf(cmd.first.log) ELSE <<>>

\* A source that returns any value at every call
ReplaysAny(l, tape) == TRUE

\* IteratorDiceRollSource::roll_single_die: the k-th call returns the k-th
\* value of the iterator (values beyond those the first evaluation drew
\* are free)
Replays(l, tape) ==
    \A k \in 1..Len(ValuesOf(l)) : k <= Len(tape) => ValuesOf(l)[k] = tape[k]

\* results.sort_unstable_by is a function of the slice: on the results of
\* the first evaluation it returns the order it returned then
SameOrder ==
    (HasFirst /\ pc' = "done" /\ cmd.rep.on /\ cmd.rep.sort
        /\ outcome'.kind = "repeated" /\ results' = cmd.first.results)
    => outcome' = cmd.first.outcome

FromSource == Replays(log', Tape) /\ SameOrder

\* Roller::roll_with_source called a second time, with a new source
Again ==
    /\ pc = "done" /\ ~HasFirst
    /\ cmd' = [expr |-> cmd.expr, rep |-> cmd.rep,
               first |-> [outcome |-> outcome, log |-> log, results |-> results]]
    /\ pc' = "start"
    /\ ip' = 1
    /\ stack' = <<>>
    /\ rolls' = new
    /\ res' = <<>>
    /\ modifier' = None("expr")
    /\ opts' = <<>>
    /\ loop' = NoLoop
    /\ log' = <<>>
    /\ results' = <<>>
    /\ outcome' = NoOutcome
    /\ UNCHANGED <<threads, climber>>

\* The options of the replayed terms
ReplayOptions ==
    FewOptions \cup {Opt("i_explode", NoValue), Opt("i_reroll", 1), OptEnum(<<2, 3>>)}

ReplayCmds ==
    {Single(<<Dice(MaxDice, MaxSides, m)>>) :
        m \in UNION {[1..k -> ReplayOptions] : k \in 0..MaxMods}}
    \cup {Single(e) : e \in BinaryOf(FewLeaves)}
    \cup {[expr |-> e, rep |-> Rep(n, q[1], q[2])] :
            e \in Repeated, n \in 0..MaxRepeat, q \in Qualifiers}

InitReplay == InitWith(ReplayCmds)

NextReplay ==
    \/ RollWithSource /\ FromSource
    \/ PrimaryInteger /\ FromSource
    \/ PrimaryFloat /\ FromSource
    \/ ComputeRoll /\ FromSource
    \/ Explode /\ FromSource
    \/ IExplodeEnter /\ FromSource
    \/ IExplodeRound(MaxRounds) /\ FromSource
    \/ Reroll /\ FromSource
    \/ IRerollEnter /\ FromSource
    \/ IRerollStep(MaxRounds) /\ FromSource
    \/ KeepDrop /\ FromSource
    \/ Target /\ FromSource
    \/ Infix /\ FromSource
    \/ BlockEnd /\ FromSource
    \/ Return /\ FromSource
    \/ Again

SpecReplay == InitReplay /\ [][NextReplay]_vars

----------------------------------------------------------------------------
\* Indefinite explode and reroll of one die against a source that keeps
\* returning qualifying faces: `1dS ie` explodes on S, `1dS ir1` rerolls 1;
\* with S = 1 every face the source can return qualifies

CapCmds ==
    {Single(<<Dice(1, s, <<o>>)>>) :
        s \in 1..MaxSides, o \in {Opt("i_explode", NoValue), Opt("i_reroll", 1)}}

InitCap == InitWith(CapCmds)

NextCap ==
    \/ RollWithSource
    \/ ComputeRoll
    \/ IExplodeEnter
    \/ IExplodeRound(CapProbe)
    \/ IRerollEnter
    \/ IRerollStep(CapProbe)
    \/ Return

SpecCap == InitCap /\ [][NextCap]_vars

----------------------------------------------------------------------------
\* Dice terms at the limits of compute_roll: MAX_NUMBER_OF_DICE dice (of
\* one side, so that the source has one answer) and one more, one die of
\* MAX_DICE_SIDES sides and of one more, and the terms that break both
\* rules

LimitCmds ==
    {Single(<<Dice(c, s, <<>>)>>) :
        c \in {MAX_NUMBER_OF_DICE, MAX_NUMBER_OF_DICE + 1}, s \in {0, 1, MAX_DICE_SIDES + 1}}
    \cup {Single(<<Dice(c, s, <<>>)>>) :
            c \in {NoValue, 1}, s \in {0, MAX_DICE_SIDES, MAX_DICE_SIDES + 1}}
    \cup {Single(<<Dice(MAX_NUMBER_OF_DICE + 1, MAX_DICE_SIDES, <<>>)>>)}

InitLimit == InitWith(LimitCmds)

NextLimit ==
    \/ RollWithSource
    \/ ComputeRoll
    \/ Return

SpecLimit == InitLimit /\ [][NextLimit]_vars

----------------------------------------------------------------------------
\* Integer operations on totals up to i64::MAX: a o b, a o b p c and the
\* summed repetition of a and of a + b

BigLeaves == {Integer(0), Integer(1), Integer(2), Integer(I64Max)}

OverflowCmds ==
    {Single(e) : e \in BinaryOf(BigLeaves)}
    \cup {Single(<<a, o, b, p, c>>) :
            a \in BigLeaves, o \in Ops, b \in BigLeaves, p \in Ops, c \in BigLeaves}
    \cup {[expr |-> e, rep |-> Rep(n, TRUE, FALSE)] :
            e \in {<<a>> : a \in BigLeaves} \cup {<<a, Op("add"), b>> : a, b \in BigLeaves},
            n \in 1..MaxRepeat}

InitOverflow == InitWith(OverflowCmds)

NextOverflow ==
    \/ RollWithSource
    \/ PrimaryInteger
    \/ Infix
    \/ Return

SpecOverflow == InitOverflow /\ [][NextOverflow]_vars

----------------------------------------------------------------------------
\* helpers/ova.rs: compute_ova applied to the outcome of an evaluation

\* SingleRollResult::with_total_and_hist
with_total_and_hist(total, history) ==
    [total |-> total, history |-> <<Roll(history)>>, dirty |-> FALSE,
     constant |-> NoConstant]

\* compute_ova, number > 0: the fold over the sorted dice; its closure
\* keeps last_side and current_res, and the value of the fold is dropped
RECURSIVE OvaFold(_, _, _, _)
OvaFold(dice, acc, last_side, current_res) ==
    IF dice = <<>> THEN current_res
    ELSE IF last_side # Head(dice)
    THEN OvaFold(Tail(dice), Head(dice), Head(dice),
                 IF acc > current_res THEN acc ELSE current_res)
    ELSE OvaFold(Tail(dice), acc + Head(dice), last_side, current_res)

\* compute_ova called with `number`
OvaEv(number) == [ev |-> "ova", number |-> number]

compute_ova(o, number) ==
    IF number = 0 THEN ErrOutcome("Number can't be zero")
    ELSE IF o.kind # "single" THEN ErrOutcome("Not a single roll result")
    ELSE IF Len(o.val.history) # 1 THEN ErrOutcome("Should have only one roll")
    ELSE IF o.val.history[1].kind # "Roll"
    THEN ErrOutcome("RollHistory must be a Roll variant")
    ELSE LET sorted == SortAsc(o.val.history[1].dice)
         IN SingleOutcome(with_total_and_hist(
                IF number > 0 THEN OvaFold(sorted, 0, 0, 0) ELSE sorted[1], sorted))

ComputeOva ==
    /\ pc = "done" /\ outcome.kind \in {"single", "repeated"}
    /\ \E number \in {-1, 0, 1, 2} :
         LET empty == /\ number < 0 /\ outcome.kind = "single"
                      /\ Len(outcome.val.history) = 1
                      /\ outcome.val.history[1].kind = "Roll"
                      /\ outcome.val.history[1].dice = <<>>
         IN /\ log' = Append(log, OvaEv(number))
            \* res.first().expect(...) on a roll of no dice
            /\ pc' = IF empty THEN "panic" ELSE "ova"
            /\ outcome' = IF empty THEN outcome ELSE compute_ova(outcome, number)
    /\ UNCHANGED <<cmd, ip, stack, rolls, res, modifier, opts, loop, results>>
    /\ UNCHANGED <<threads, climber>>

\* 0 to MaxDice + 1 dice of 1 to MaxSides sides, a fudge term, a constant,
\* a sum of two terms and a repetition
OvaCmds ==
    {Single(<<Dice(c, s, <<>>)>>) : c \in 0..(MaxDice + 1), s \in 1..MaxSides}
    \cup {Single(<<FudgeDice(1, <<>>)>>), Single(<<Integer(2)>>),
          Single(<<Dice(1, 2, <<>>), Op("add"), Dice(1, 2, <<>>)>>),
          [expr |-> <<Dice(1, 2, <<>>)>>, rep |-> Rep(1, FALSE, FALSE)]}

InitOva == InitWith(OvaCmds)

NextOva ==
    \/ RollWithSource
    \/ PrimaryInteger
    \/ ComputeRoll
    \/ Infix
    \/ Return
    \/ ComputeOva

SpecOva == InitOva /\ [][NextOva]_vars

----------------------------------------------------------------------------
\* One SingleRollResult under any sequence of add_history, compute_total
\* and arithmetic calls (the crate calls them from compute_roll and from the
\* infix closure). `rolls` is the result, `log` the calls made on it, each
\* with the result it was made on.

AddHistoryEv(before) == [ev |-> "add_history", before |-> before]

ComputeTotalEv(before, m, ret) ==
    [ev |-> "compute_total", before |-> before, m |-> m, ret |-> ret]

ArithEv(before, rhs) == [ev |-> "arith", before |-> before, rhs |-> rhs]

\* The modifiers compute_total is called with
ResultModifiers ==
    {None("expr"), Fudge, TargetFailureDouble(2, 0, 0)}
    \cup {KeepHi(n) : n \in {1, MaxDice + 1}} \cup {DropLo(n) : n \in {1, MaxDice + 1}}

ResultAddHistory ==
    /\ pc = "result" /\ Len(log) < MaxCalls
    /\ \E n \in 1..MaxDice : \E batch \in Batches(n, 2) :
         /\ rolls' = add_history(rolls, batch, FALSE)
         /\ log' = Append(log, AddHistoryEv(rolls))
    /\ UNCHANGED <<cmd, pc, ip, stack, res, modifier, opts, loop, results, outcome>>
    /\ UNCHANGED <<threads, climber>>

ResultComputeTotal ==
    /\ pc = "result" /\ Len(log) < MaxCalls
    /\ \E m \in ResultModifiers :
         LET t == compute_total(rolls, m)
         IN /\ rolls' = t.self
            /\ log' = Append(log, ComputeTotalEv(rolls, m, t.ret))
    /\ UNCHANGED <<cmd, pc, ip, stack, res, modifier, opts, loop, results, outcome>>
    /\ UNCHANGED <<threads, climber>>

ResultArith ==
    /\ pc = "result" /\ Len(log) < MaxCalls
    /\ \E rhs \in {with_total(1), with_float(<<1, 2>>)} :
         /\ rolls' = add(rolls, rhs)
         /\ log' = Append(log, ArithEv(rolls, rhs))
    /\ UNCHANGED <<cmd, pc, ip, stack, res, modifier, opts, loop, results, outcome>>
    /\ UNCHANGED <<threads, climber>>

InitResult ==
    /\ cmd = Single(<<>>)
    /\ pc = "result"
    /\ ip = 1
    /\ stack = <<>>
    /\ rolls \in {new, with_total(2)}
    /\ res = <<>>
    /\ modifier = None("expr")
    /\ opts = <<>>
    /\ loop = NoLoop
    /\ log = <<>>
    /\ results = <<>>
    /\ outcome = NoOutcome
    /\ threads = NoThreads
    /\ climber = NoClimber

NextResult ==
    \/ ResultAddHistory
    \/ ResultComputeTotal
    \/ ResultArith

SpecResult == InitResult /\ [][NextResult]_vars

----------------------------------------------------------------------------
\* Threads calling compute at the same time. Each call runs get_climber
\* (ONCE.call_once, then the clone of *PREC_CLIMBER) and Climber::climb
\* (inner.read(), parse, drop of the read guard); while parsing, a
\* block_expr makes compute call get_climber again on the same thread.

Threads == 1..MaxThreads

\* A thread that finds ONCE not complete runs the closure
EntersClosureRacy(once) == once # "complete"

\* Once::call_once: the thread that finds ONCE incomplete runs the closure
EntersClosure(once) == once = "incomplete"

\* compute is called: get_climber starts
Start(t) ==
    /\ threads[t].pos = "idle" /\ threads[t].left > 0
    /\ threads' = [threads EXCEPT ![t].pos = "call_once", ![t].left = @ - 1]
    /\ UNCHANGED <<cmd, pc, ip, stack, rolls, res, modifier, opts, loop, log, results,
                   outcome, climber>>

\* ONCE.call_once: run the closure, or pass when it has completed; a thread
\* that finds it running waits
CallOnce(t) ==
    /\ threads[t].pos = "call_once"
    /\ \/ /\ EntersClosure(climber.once)
          /\ climber' = [climber EXCEPT !.once = "running"]
          /\ threads' = [threads EXCEPT ![t].pos = "closure"]
       \/ /\ climber.once = "complete"
          /\ threads' = [threads EXCEPT ![t].pos = "deref"]
          /\ UNCHANGED climber
    /\ UNCHANGED <<cmd, pc, ip, stack, rolls, res, modifier, opts, loop, log, results,
                   outcome>>

\* The closure: the singleton is built and PREC_CLIMBER set
Construct(t) ==
    /\ threads[t].pos = "closure"
    /\ climber' = [climber EXCEPT !.ptr = TRUE, !.built = @ + 1]
    /\ threads' = [threads EXCEPT ![t].pos = "closed"]
    /\ UNCHANGED <<cmd, pc, ip, stack, rolls, res, modifier, opts, loop, log, results,
                   outcome>>

\* The closure returns: ONCE is complete
Complete(t) ==
    /\ threads[t].pos = "closed"
    /\ climber' = [climber EXCEPT !.once = "complete"]
    /\ threads' = [threads EXCEPT ![t].pos = "deref"]
    /\ UNCHANGED <<cmd, pc, ip, stack, rolls, res, modifier, opts, loop, log, results,
                   outcome>>

\* (*PREC_CLIMBER).clone()
Deref(t) ==
    /\ threads[t].pos = "deref"
    /\ climber' = [climber EXCEPT
                     !.early = @ \/ ~climber.ptr \/ climber.once # "complete"]
    /\ threads' = [threads EXCEPT ![t].pos = "read"]
    /\ UNCHANGED <<cmd, pc, ip, stack, rolls, res, modifier, opts, loop, log, results,
                   outcome>>

\* Climber::climb: self.inner.read() waits while a writer holds the lock
ReadLock(t) ==
    /\ threads[t].pos = "read" /\ climber.writers = 0
    /\ climber' = [climber EXCEPT !.readers = @ + 1]
    /\ threads' = [threads EXCEPT ![t].pos = "parse", ![t].held = @ + 1]
    /\ UNCHANGED <<cmd, pc, ip, stack, rolls, res, modifier, opts, loop, log, results,
                   outcome>>

\* parse meets a block_expr: compute calls get_climber again
Nest(t) ==
    /\ threads[t].pos = "parse" /\ threads[t].left > 0
    /\ threads' = [threads EXCEPT ![t].pos = "call_once", ![t].left = @ - 1]
    /\ UNCHANGED <<cmd, pc, ip, stack, rolls, res, modifier, opts, loop, log, results,
                   outcome, climber>>

\* parse returns and the read guard is dropped; compute returns to the
\* parse that called it, or to the caller of the evaluation
Unlock(t) ==
    /\ threads[t].pos = "parse"
    /\ climber' = [climber EXCEPT !.readers = @ - 1]
    /\ threads' = [threads EXCEPT ![t].pos = IF threads[t].held > 1 THEN "parse" ELSE "idle",
                                  ![t].held = @ - 1]
    /\ UNCHANGED <<cmd, pc, ip, stack, rolls, res, modifier, opts, loop, log, results,
                   outcome>>

InitClimber ==
    /\ cmd = Single(<<>>)
    /\ pc = "threads"
    /\ ip = 1
    /\ stack = <<>>
    /\ rolls = new
    /\ res = <<>>
    /\ modifier = None("expr")
    /\ opts = <<>>
    /\ loop = NoLoop
    /\ log = <<>>
    /\ results = <<>>
    /\ outcome = NoOutcome
    /\ threads \in [Threads -> {[pos |-> "idle", held |-> 0, left |-> n] : n \in 0..MaxClimbs}]
    /\ climber = NoClimber

ThreadStep(t) ==
    \/ Start(t)
    \/ CallOnce(t)
    \/ Construct(t)
    \/ Complete(t)
    \/ Deref(t)
    \/ ReadLock(t)
    \/ Nest(t)
    \/ Unlock(t)

NextClimber ==
    \/ \E t \in Threads : Start(t)
    \/ \E t \in Threads : CallOnce(t)
    \/ \E t \in Threads : Construct(t)
    \/ \E t \in Threads : Complete(t)
    \/ \E t \in Threads : Deref(t)
    \/ \E t \in Threads : ReadLock(t)
    \/ \E t \in Threads : Nest(t)
    \/ \E t \in Threads : Unlock(t)

\* Every thread that can take a step is scheduled
SpecClimber ==
    InitClimber /\ [][NextClimber]_vars /\ \A t \in Threads : WF_vars(ThreadStep(t))

----------------------------------------------------------------------------
\* Expressions of three dice terms with different sides, so that every
\* request to the source names its term: A o B p C, (A o B) p C and
\* A o (B p C), each term plain, exploding or re-rolling

OrderTerms(sides) ==
    {Dice(1, sides, m) : m \in {<<>>, <<Opt("explode", NoValue)>>, <<Opt("reroll", 1)>>}}

OrderSides ==
    {s \in [1..3 -> 1..MaxSides] : \A i, j \in 1..3 : i # j => s[i] # s[j]}

\* One operator of each precedence level
OrderOps == {Op(r) : r \in {"add", "mul"}}

OrderExprs(s) ==
    UNION {{<<a, o, b, p, c>>, <<Block(<<a, o, b>>), p, c>>, <<a, o, Block(<<b, p, c>>)>>} :
             a \in OrderTerms(s[1]), b \in OrderTerms(s[2]), c \in OrderTerms(s[3]),
             o \in OrderOps, p \in OrderOps}

OrderCmds == {Single(e) : e \in UNION {OrderExprs(s) : s \in OrderSides}}

InitOrder == InitWith(OrderCmds)

NextOrder ==
    \/ RollWithSource
    \/ ComputeRoll
    \/ Explode
    \/ Reroll
    \/ Infix
    \/ BlockEnd
    \/ Return

SpecOrder == InitOrder /\ [][NextOrder]_vars

----------------------------------------------------------------------------
\* What a finished evaluation shows

\* The dice requested from the source so far, in order
Requested == SelectSeq(log, LAMBDA e : e.ev = "roll")

Faces == [i \in 1..Len(Requested) |-> Requested[i].value]

\* The command is one dice term (not fudge), evaluated once
IsTermCmd ==
    /\ ~cmd.rep.on /\ Len(cmd.expr) = 1
    /\ cmd.expr[1].kind = "dice" /\ ~cmd.expr[1].fudge

TheTerm == cmd.expr[1]

TermCount == IF TheTerm.count = NoValue THEN 1 ELSE TheTerm.count

TermMods == TheTerm.mods

RulesOf(mods) == {mods[i].rule : i \in 1..Len(mods)}

KeepDropRules == {"keep_hi", "keep_lo", "drop_hi", "drop_lo"}

TargetRules == {"target", "failure", "double_target"}

ExplodeRules == {"explode", "i_explode"}

RerollRules == {"reroll", "i_reroll"}

\* The evaluation returned a single result with that total
ReturnsTotal(n) == outcome.kind = "single" /\ outcome.val.total = n

\* Successes of faces against target t, failure f and double target d
\* (0 = unset): +2, +1, -1 or 0 for each die
RECURSIVE Successes(_, _, _, _)
Successes(faces, t, f, d) ==
    IF faces = <<>> THEN 0
    ELSE Successes(Tail(faces), t, f, d) +
         (IF d > 0 /\ Head(faces) >= d THEN 2
          ELSE IF t > 0 /\ Head(faces) >= t THEN 1
          ELSE IF f > 0 /\ Head(faces) <= f THEN -1
          ELSE 0)

----------------------------------------------------------------------------
\* C1: a plain term `count d sides` (count 1 when omitted, count and sides
\* within the limits, sides > 0) requests exactly count dice, one request
\* per die, each with the term's sides, and its total is the sum of the
\* faces returned.
C1_PlainTermRollsCountDice ==
    (/\ pc = "done" /\ IsTermCmd /\ TermMods = <<>>
     /\ TermCount <= MAX_NUMBER_OF_DICE
     /\ TheTerm.sides >= 1 /\ TheTerm.sides <= MAX_DICE_SIDES)
    => /\ Len(Requested) = TermCount
       /\ \A i \in 1..Len(Requested) : Requested[i].sides = TheTerm.sides
       /\ ReturnsTotal(SumSeq(Faces))

C1_Witness ==
    /\ pc = "done" /\ IsTermCmd /\ TermMods = <<>>
    /\ TermCount = MaxDice /\ TheTerm.sides = MaxSides
    /\ Len(Requested) = MaxDice
    /\ Faces[1] # Faces[2]
    /\ ReturnsTotal(SumSeq(Faces))

----------------------------------------------------------------------------
\* The value of the first / last option of that rule, 0 when there is none
FirstOf(mods, rule) ==
    IF rule \in RulesOf(mods)
    THEN mods[CHOOSE i \in 1..Len(mods) :
                 mods[i].rule = rule /\ \A j \in 1..(i - 1) : mods[j].rule # rule].value
    ELSE 0

LastOf(mods, rule) ==
    IF rule \in RulesOf(mods)
    THEN mods[CHOOSE i \in 1..Len(mods) :
                 mods[i].rule = rule /\ \A j \in (i + 1)..Len(mods) : mods[j].rule # rule].value
    ELSE 0

\* A term whose options are all target, failure or double target, with
\* values > 0
IsTargetTerm ==
    /\ IsTermCmd /\ TermMods # <<>>
    /\ \A i \in 1..Len(TermMods) : TermMods[i].rule \in TargetRules /\ TermMods[i].value > 0

\* C5 as stated: on a term with several target, failure and double-target
\* modifiers each field of the strategy is fixed by the FIRST modifier of
\* its kind (`t7 t9` counts with target 7), whatever the order between
\* modifiers of different kinds.
C5_FirstOfEachKindWins ==
    (pc = "done" /\ IsTargetTerm)
    => LET t == FirstOf(TermMods, "target")
           f == FirstOf(TermMods, "failure")
           d == FirstOf(TermMods, "double_target")
       IN /\ modifier = TargetFailureDouble(t, f, d)
          /\ ReturnsTotal(Successes(Faces, t, f, d))

\* C5 amended: on a term whose modifiers are all target, failure or
\* double-target modifiers with values > 0, each field of the strategy is
\* fixed by the LAST modifier of its kind (`t7 t9` counts with target 9);
\* strategy and total depend only on these three values, so not on the
\* order between modifiers of different kinds.
C5_LastOfEachKindWins ==
    (pc = "done" /\ IsTargetTerm)
    => LET t == LastOf(TermMods, "target")
           f == LastOf(TermMods, "failure")
           d == LastOf(TermMods, "double_target")
       IN /\ modifier = TargetFailureDouble(t, f, d)
          /\ ReturnsTotal(Successes(Faces, t, f, d))

C5_Witness ==
    /\ pc = "done" /\ IsTargetTerm
    /\ Len(TermMods) = MaxMods + 1
    /\ TermMods[1].rule = TermMods[Len(TermMods)].rule
    /\ TermMods[1].value # TermMods[Len(TermMods)].value
    /\ TermMods[2].rule # TermMods[1].rule
    /\ ReturnsTotal(Successes(Faces, LastOf(TermMods, "target"),
                              LastOf(TermMods, "failure"),
                              LastOf(TermMods, "double_target")))
    /\ ~ReturnsTotal(Successes(Faces, FirstOf(TermMods, "target"),
                               FirstOf(TermMods, "failure"),
                               FirstOf(TermMods, "double_target")))

----------------------------------------------------------------------------
\* C6: when the accumulated strategy of a term is target / failure /
\* double target, the total is the sum over the dice of the term of +2 (d
\* set and x >= d), else +1 (t set and x >= t), else -1 (f set and
\* x <= f), else 0. Stated for the terms made of explode and target-family
\* modifiers, whose dice are the dice requested.
C6_TargetTotalScoresEachDie ==
    (/\ pc = "done" /\ IsTermCmd /\ outcome.kind = "single"
     /\ RulesOf(TermMods) \subseteq (ExplodeRules \cup TargetRules)
     /\ modifier.tag = "TargetFailureDouble")
    => ReturnsTotal(Successes(Faces, modifier.t, modifier.f, modifier.d))

----------------------------------------------------------------------------
\* C7: a target or failure option with the value 0 is the same as not
\* having the option: the total of `NdS t0` or `NdS f0` is the sum of the
\* dice.
C7_ZeroTargetIsNoOption ==
    (/\ pc = "done" /\ IsTermCmd /\ Len(TermMods) = 1
     /\ TermMods[1].rule \in {"target", "failure"} /\ TermMods[1].value = 0)
    => ReturnsTotal(SumSeq(Faces))

----------------------------------------------------------------------------
\* The n largest / smallest dice kept, or what is left after dropping them
KeptOf(dice, rule, n) ==
    LET sorted == SortAsc(dice)
    IN CASE rule = "keep_hi" -> Slice(sorted, Len(sorted) - n + 1, Len(sorted))
         [] rule = "keep_lo" -> Slice(sorted, 1, n)
         [] rule = "drop_hi" -> Slice(sorted, 1, Len(sorted) - n)
         [] rule = "drop_lo" -> Slice(sorted, n + 1, Len(sorted))

\* C8: for a term ending with keep-highest, keep-lowest, drop-highest or
\* drop-lowest n, n not above the number of dice, the total is the sum of
\* the n largest / n smallest dice, or of all but them, taken over all the
\* dice of the term, dice of an earlier explode included. Stated for the
\* evaluations in which no die was replaced by a reroll, whose dice are the
\* dice requested.
C8_KeepDropTotalsOverAllDice ==
    (/\ pc = "done" /\ IsTermCmd /\ TermMods # <<>>
     /\ RulesOf(TermMods) \subseteq (ExplodeRules \cup RerollRules \cup KeepDropRules)
     /\ TermMods[Len(TermMods)].rule \in KeepDropRules
     /\ TermMods[Len(TermMods)].value <= Len(Faces)
     /\ \A i \in 1..Len(TermMods) : \A j \in 1..Len(Faces) :
            TermMods[i].rule \in RerollRules => Faces[j] > TermMods[i].value)
    => ReturnsTotal(SumSeq(KeptOf(Faces, TermMods[Len(TermMods)].rule,
                                  TermMods[Len(TermMods)].value)))

----------------------------------------------------------------------------
\* C9: a keep / drop option applied with n above the number of dice in the
\* working set at that moment makes the evaluation fail with a parameter
\* error; the count is never clamped. Stated for the terms made of reroll,
\* keep and drop modifiers, where the set an option receives is the set the
\* earlier options selected.
C9_KeepDropAboveWorkingSetFails ==
    (/\ pc = "done" /\ IsTermCmd
     /\ RulesOf(TermMods) \subseteq (RerollRules \cup KeepDropRules)
     /\ \E i \in 1..Len(log) : log[i].ev = "keepdrop" /\ log[i].n > log[i].size)
    => outcome.kind = "err"

----------------------------------------------------------------------------
\* C10: a single explode with value v: the number of dice rolled in
\* addition equals the number of initial dice >= v, the added dice are not
\* exploded again, and the total is the sum of the initial and added dice.
C10_ExplodeOnce ==
    (/\ pc = "done" /\ IsTermCmd /\ Len(TermMods) = 1
     /\ TermMods[1].rule = "explode")
    => LET v == IF TermMods[1].value = NoValue THEN TheTerm.sides ELSE TermMods[1].value
       IN /\ Len(Faces) >= TermCount
          /\ Len(Faces) = TermCount + CountGE(SubSeq(Faces, 1, TermCount), v)
          /\ ReturnsTotal(SumSeq(Faces))

C10_Witness ==
    /\ pc = "done" /\ IsTermCmd /\ Len(TermMods) = 1
    /\ TermMods[1].rule = "explode" /\ TermMods[1].value = 2
    /\ TermCount = MaxDice
    /\ Len(Faces) = 2 * MaxDice
    /\ Faces[MaxDice + 1] = TheTerm.sides
    /\ ReturnsTotal(SumSeq(Faces))

----------------------------------------------------------------------------
\* C2: once an operation of an evaluation fails (a dice term, a division,
\* a total computation, a repetition count), no further die is requested
\* from the source, and the call returns the error and no outcome.
C2_NoRollAfterFailure ==
    /\ \A i \in 1..Len(log) : \A j \in (i + 1)..Len(log) :
           log[i].ev = "fail" => log[j].ev # "roll"
    /\ (pc = "done" /\ \E i \in 1..Len(log) : log[i].ev = "fail") => outcome.kind = "err"

----------------------------------------------------------------------------
\* C3: whenever the right operand of a division is zero (float constant
\* 0.0, or no constant and integer total 0) the division is not computed
\* and the evaluation returns a parameter error and no outcome; every
\* division that is computed has a non-zero divisor, and none faults.
C3_NoDivisionByZero ==
    /\ \A i \in 1..Len(log) :
           (log[i].ev = "div" /\ log[i].divisor[1] = 0) => ~log[i].computed
    /\ (pc = "done" /\ \E i \in 1..Len(log) : log[i].ev = "div" /\ log[i].divisor[1] = 0)
           => outcome.kind = "err"
    /\ pc # "panic"

\* `1d2 / 0.0`: the die is rolled, the division by the constant 0.0 is
\* refused and the evaluation returns the error
C3_Witness ==
    /\ pc = "done" /\ Len(cmd.expr) = 3
    /\ cmd.expr[1].kind = "dice" /\ cmd.expr[2].rule = "div" /\ cmd.expr[3].kind = "float"
    /\ Len(Requested) = 1
    /\ \E i \in 1..Len(log) :
           log[i].ev = "div" /\ log[i].divisor[1] = 0 /\ ~log[i].computed
    /\ outcome.kind = "err"
    /\ outcome.err = "Can't divide by zero"

----------------------------------------------------------------------------
\* C4: an indefinite explode performs at most 100 explosion rounds and an
\* indefinite reroll at most 100 rerolls of a die, even when every value
\* the source returns qualifies.
C4_IndefiniteLoopsCapped ==
    /\ loop.rounds <= DocumentedCap
    /\ Len(Requested) <= 1 + DocumentedCap

----------------------------------------------------------------------------
\* faces splits into generations: the first of n dice, each next one of as
\* many dice as the one before has dice >= v, the last with none >= v
RECURSIVE Generations(_, _, _)
Generations(faces, n, v) ==
    IF n = 0 THEN faces = <<>>
    ELSE /\ Len(faces) >= n
         /\ Generations(SubSeq(faces, n + 1, Len(faces)), CountGE(SubSeq(faces, 1, n), v), v)

\* C11: a term with only an indefinite explode: each generation rolls as
\* many dice as the previous one had dice at or above the threshold, the
\* loop stops after the first generation without such a die, and the
\* total is the sum of the initial dice and of all generations.
C11_IndefiniteExplodeGenerations ==
    (/\ pc = "done" /\ IsTermCmd /\ Len(TermMods) = 1
     /\ TermMods[1].rule = "i_explode")
    => LET v == IF TermMods[1].value = NoValue THEN TheTerm.sides ELSE TermMods[1].value
       IN /\ Generations(Faces, TermCount, v)
          /\ ReturnsTotal(SumSeq(Faces))

C11_Witness ==
    /\ pc = "done" /\ IsTermCmd /\ Len(TermMods) = 1
    /\ TermMods[1].rule = "i_explode" /\ TermMods[1].value = NoValue
    /\ TermCount = MaxDice
    /\ Len(Faces) = TermCount + 2
    /\ Faces[1] = TheTerm.sides /\ Faces[2] < TheTerm.sides
    /\ Faces[Len(Faces) - 1] = TheTerm.sides
    /\ ReturnsTotal(SumSeq(Faces))

----------------------------------------------------------------------------
\* The dice after one reroll at threshold v: a die <= v is replaced by the
\* next extra face, in die order; the others stay
RerolledOnce(initial, extra, v) ==
    [i \in 1..Len(initial) |->
        IF initial[i] <= v THEN extra[CountLE(SubSeq(initial, 1, i), v)] ELSE initial[i]]

\* C12: a term with only a reroll of threshold v: each die <= v is
\* rerolled exactly once (one extra request per such die), the new face
\* replaces it even when it is again <= v, the dice above v stay, and the
\* total is the sum of the resulting dice.
C12_RerollOnce ==
    (/\ pc = "done" /\ IsTermCmd /\ Len(TermMods) = 1
     /\ TermMods[1].rule = "reroll")
    => LET v == TermMods[1].value
           initial == SubSeq(Faces, 1, TermCount)
           extra == SubSeq(Faces, TermCount + 1, Len(Faces))
       IN /\ Len(Faces) >= TermCount
          /\ Len(extra) = CountLE(initial, v)
          /\ res = SortAsc(RerolledOnce(initial, extra, v))
          /\ ReturnsTotal(SumSeq(RerolledOnce(initial, extra, v)))

C12_Witness ==
    /\ pc = "done" /\ IsTermCmd /\ Len(TermMods) = 1
    /\ TermMods[1].rule = "reroll"
    /\ TermCount = MaxDice
    /\ Len(Faces) = TermCount + 1
    /\ Faces[1] > TermMods[1].value
    /\ Faces[2] <= TermMods[1].value
    /\ Faces[Len(Faces)] <= TermMods[1].value
    /\ Faces[Len(Faces)] # Faces[2]
    /\ ReturnsTotal(Faces[1] + Faces[Len(Faces)])

----------------------------------------------------------------------------
\* C13: a term with only an indefinite reroll of threshold v: every die of
\* the final set is > v and the total is the sum of the final set, also
\* when no initial die is <= v (the total is then the sum of the initial
\* roll).
C13_IndefiniteRerollTotal ==
    (/\ pc = "done" /\ IsTermCmd /\ Len(TermMods) = 1
     /\ TermMods[1].rule = "i_reroll")
    => /\ Len(res) = TermCount
       /\ \A i \in 1..Len(res) : res[i] > TermMods[1].value
       /\ ReturnsTotal(SumSeq(res))
       /\ Len(Faces) = TermCount => ReturnsTotal(SumSeq(Faces))

----------------------------------------------------------------------------
\* C14: with a target-set modifier S the total is the number of dice of
\* the term whose face is a member of S, a die counting once however often
\* its value is listed. Stated for the terms made of explode modifiers and
\* one target set, whose dice are the dice requested.
C14_TargetSetCountsMembers ==
    (/\ pc = "done" /\ IsTermCmd /\ outcome.kind = "single"
     /\ RulesOf(TermMods) \subseteq (ExplodeRules \cup {"target_enum"})
     /\ Cardinality({i \in 1..Len(TermMods) : TermMods[i].rule = "target_enum"}) = 1
     /\ modifier.tag = "TargetEnum")
    => ReturnsTotal(Cardinality({i \in 1..Len(Faces) : Contains(modifier.v, Faces[i])}))

----------------------------------------------------------------------------
\* The command is one fudge term, evaluated once
IsFudgeCmd ==
    /\ ~cmd.rep.on /\ Len(cmd.expr) = 1
    /\ cmd.expr[1].kind = "dice" /\ cmd.expr[1].fudge

\* -1 for the faces 1-2, 0 for 3-4, +1 for 5-6
RECURSIVE FudgeSum(_)
FudgeSum(faces) ==
    IF faces = <<>> THEN 0
    ELSE FudgeSum(Tail(faces)) +
         (IF Head(faces) \in {1, 2} THEN -1 ELSE IF Head(faces) \in {3, 4} THEN 0 ELSE 1)

\* C15: a fudge term `N dF` requests exactly N six-sided dice, ignores the
\* modifiers written after it (no further die, no keep / drop applied),
\* and its total is the sum of -1 / 0 / +1 over the faces, within [-N, N].
C15_FudgeTerm ==
    (pc = "done" /\ IsFudgeCmd /\ TermCount <= MAX_NUMBER_OF_DICE)
    => /\ Len(Requested) = TermCount
       /\ \A i \in 1..Len(log) : log[i].ev = "roll" /\ log[i].sides = 6
       /\ ReturnsTotal(FudgeSum(Faces))
       /\ outcome.val.total >= -TermCount /\ outcome.val.total <= TermCount
       /\ outcome.val.history = <<FudgeRoll(SortDesc(Faces))>>

C15_Witness ==
    /\ pc = "done" /\ IsFudgeCmd /\ TermCount = MaxDice
    /\ TermMods # <<>> /\ TermMods[1].rule = "keep_hi"
    /\ Faces[1] <= 2 /\ Faces[2] >= 5
    /\ ReturnsTotal(0)

----------------------------------------------------------------------------
\* The command is `a op b`, evaluated once, with a and b integers, floats
\* or plain dice terms
IsPlainOperand(t) ==
    \/ t.kind \in {"integer", "float"}
    \/ t.kind = "dice" /\ ~t.fudge /\ t.mods = <<>> /\ t.count = 1 /\ t.sides >= 1

IsBinaryCmd ==
    /\ ~cmd.rep.on /\ Len(cmd.expr) = 3
    /\ IsPlainOperand(cmd.expr[1]) /\ IsPlainOperand(cmd.expr[3])

\* The integer total of an operand (the k-th die requested for a dice term)
\* and its value in the floating operation
TotalOf(t, k) ==
    CASE t.kind = "integer" -> t.i
      [] t.kind = "float" -> IF t.f[1] >= 0 THEN t.f[1] \div t.f[2] ELSE -((-t.f[1]) \div t.f[2])
      [] OTHER -> Faces[k]

FloatOf(t, k) == IF t.kind = "float" THEN t.f ELSE <<TotalOf(t, k), 1>>

\* q truncated toward zero (q[2] > 0)
TowardZero(q) == IF q[1] >= 0 THEN q[1] \div q[2] ELSE -((-q[1]) \div q[2])

\* a op b as the claim defines it
Combine(rule, a, ka, b, kb) ==
    IF a.kind # "float" /\ b.kind # "float"
    THEN CASE rule = "add" -> TotalOf(a, ka) + TotalOf(b, kb)
           [] rule = "sub" -> TotalOf(a, ka) - TotalOf(b, kb)
           [] rule = "mul" -> TotalOf(a, ka) * TotalOf(b, kb)
           [] rule = "div" -> TowardZero(<<TotalOf(a, ka), TotalOf(b, kb)>>)
    ELSE LET x == FloatOf(a, ka)
             y == FloatOf(b, kb)
         IN CASE rule = "add" -> TowardZero(<<x[1] * y[2] + y[1] * x[2], x[2] * y[2]>>)
              [] rule = "sub" -> TowardZero(<<x[1] * y[2] - y[1] * x[2], x[2] * y[2]>>)
              [] rule = "mul" -> TowardZero(<<x[1] * y[1], x[2] * y[2]>>)
              [] rule = "div" -> TowardZero(<<x[1] * y[2], x[2] * y[1]>>)

\* C16: a op b is plain integer arithmetic on the two totals when neither
\* operand carries a float constant; otherwise it is done in floating
\* point on the constant (of an operand that has one) and the integer
\* total (of one that has none) and truncated toward zero once.
C16_IntegerOrFloatArithmetic ==
    (pc = "done" /\ IsBinaryCmd /\ outcome.kind = "single")
    => /\ ReturnsTotal(Combine(cmd.expr[2].rule, cmd.expr[1], 1,
                               cmd.expr[3], IF cmd.expr[1].kind = "dice" THEN 2 ELSE 1))
       /\ outcome.val.constant = NoConstant

\* `1d2 * 0.5` on face 2 gives 1
C16_Witness ==
    /\ pc = "done" /\ IsBinaryCmd
    /\ cmd.expr[1].kind = "dice" /\ cmd.expr[2].rule = "mul"
    /\ cmd.expr[3].kind = "float" /\ cmd.expr[3].f = <<1, 2>>
    /\ Faces = <<2>>
    /\ ReturnsTotal(1)

----------------------------------------------------------------------------
\* Reference values: an integer total, and the float constant of a float
\* operand
LeafValue(t, k) == [total |-> TotalOf(t, k), float |-> t.kind = "float", q |-> FloatOf(t, k)]

\* n / d truncated toward zero, for either sign of n and d
Quotient(n, d) ==
    IF d = 0 THEN 0
    ELSE LET an == IF n < 0 THEN -n ELSE n
             ad == IF d < 0 THEN -d ELSE d
         IN IF (n < 0) = (d < 0) THEN an \div ad ELSE -(an \div ad)

\* x op y: an integer total without a float constant
Apply(rule, x, y) ==
    LET total ==
          IF ~x.float /\ ~y.float
          THEN CASE rule = "add" -> x.total + y.total
                 [] rule = "sub" -> x.total - y.total
                 [] rule = "mul" -> x.total * y.total
                 [] rule = "div" -> Quotient(x.total, y.total)
          ELSE CASE rule = "add" -> Quotient(x.q[1] * y.q[2] + y.q[1] * x.q[2], x.q[2] * y.q[2])
                 [] rule = "sub" -> Quotient(x.q[1] * y.q[2] - y.q[1] * x.q[2], x.q[2] * y.q[2])
                 [] rule = "mul" -> Quotient(x.q[1] * y.q[1], x.q[2] * y.q[2])
                 [] rule = "div" -> Quotient(x.q[1] * y.q[2], x.q[2] * y.q[1])
    IN [total |-> total, float |-> FALSE, q |-> <<total, 1>>]

\* The three-operand commands: a o b p c, (a o b) p c, a o (b p c), with
\* `left` telling whether the fully parenthesised reading is (a o b) p c
IsFlatTernary == ~cmd.rep.on /\ Len(cmd.expr) = 5

IsLeftBlock == ~cmd.rep.on /\ Len(cmd.expr) = 3 /\ cmd.expr[1].kind = "block_expr"

IsRightBlock == ~cmd.rep.on /\ Len(cmd.expr) = 3 /\ cmd.expr[3].kind = "block_expr"

Reading ==
    LET e == cmd.expr
    IN CASE IsFlatTernary ->
              [a |-> e[1], o |-> e[2].rule, b |-> e[3], p |-> e[4].rule, c |-> e[5],
               left |-> e[2].rule \in {"mul", "div"} \/ e[4].rule \in {"add", "sub"}]
         [] IsLeftBlock ->
              [a |-> e[1].expr[1], o |-> e[1].expr[2].rule, b |-> e[1].expr[3],
               p |-> e[2].rule, c |-> e[3], left |-> TRUE]
         [] IsRightBlock ->
              [a |-> e[1], o |-> e[2].rule, b |-> e[3].expr[1],
               p |-> e[3].expr[2].rule, c |-> e[3].expr[3], left |-> FALSE]

\* The total of the fully parenthesised reading; the dice are requested
\* operand by operand from left to right
ReadingTotal ==
    LET r == Reading
        ka == 1
        kb == IF r.a.kind = "dice" THEN 2 ELSE 1
        kc == IF r.b.kind = "dice" THEN kb + 1 ELSE kb
        a == LeafValue(r.a, ka)
        b == LeafValue(r.b, kb)
        c == LeafValue(r.c, kc)
    IN IF r.left THEN Apply(r.p, Apply(r.o, a, b), c).total
       ELSE Apply(r.o, a, Apply(r.p, b, c)).total

\* C17: `*` and `/` bind tighter than `+` and `-`, operators of one level
\* group from the left, and a parenthesised block is one operand: the
\* total of an expression is the total of its fully parenthesised reading.
C17_PrecedenceAndLeftAssociativity ==
    (pc = "done" /\ (IsFlatTernary \/ IsLeftBlock \/ IsRightBlock) /\ outcome.kind = "single")
    => ReturnsTotal(ReadingTotal)

\* `2 - 1d2 - 2` on face 1 gives -1 (and not 2 - (1 - 2) = 3)
C17_Witness ==
    /\ pc = "done" /\ IsFlatTernary
    /\ cmd.expr = <<Integer(2), Op("sub"), Dice(1, 2, <<>>), Op("sub"), Integer(2)>>
    /\ Faces = <<1>>
    /\ ReturnsTotal(-1)

----------------------------------------------------------------------------
\* Repetitions

IsRepeatCmd == cmd.rep.on

IsPlain == ~cmd.rep.sum_all /\ ~cmd.rep.sort

\* The dice one evaluation of the inner expression requests
RECURSIVE DiceIn(_)
DiceIn(e) ==
    IF e = <<>> THEN 0
    ELSE (CASE Head(e).kind = "dice" -> 1
            [] Head(e).kind = "block_expr" -> DiceIn(Head(e).expr)
            [] OTHER -> 0) + DiceIn(Tail(e))

\* The total of one evaluation of the inner expression on the faces f it
\* requested: 1d2, 1d2 + 1d2, n / (1d2 - m)
InnerTotal(e, f) ==
    CASE Len(e) = 1 -> f[1]
      [] Len(e) = 3 /\ e[3].kind = "block_expr" -> Quotient(e[1].i, f[1] - e[3].expr[3].i)
      [] OTHER -> f[1] + f[2]

\* The faces the k-th evaluation drew
Drawn(k) == SubSeq(Faces, (k - 1) * DiceIn(cmd.expr) + 1, k * DiceIn(cmd.expr))

Totals(v) == [i \in 1..Len(v) |-> v[i].total]

\* C18: a repetition with count N >= 1 evaluates the inner expression
\* exactly N times, the evaluations drawing consecutively from the same
\* source, and returns N single results; with the plain qualifier they are
\* in generation order and there is no aggregate; a count N <= 0 fails
\* with a parameter error before any die is rolled.
C18_RepeatEvaluatesNTimes ==
    (pc = "done" /\ IsRepeatCmd)
    => /\ cmd.rep.number <= 0
          => /\ outcome = ErrOutcome("Can't repeat 0 times or negatively")
             /\ Requested = <<>>
       /\ (cmd.rep.number >= 1 /\ outcome.kind # "err")
          => /\ outcome.kind = "repeated"
             /\ Len(outcome.rolls) = cmd.rep.number
             /\ Len(results) = cmd.rep.number
             /\ Len(Faces) = cmd.rep.number * DiceIn(cmd.expr)
             /\ \A k \in 1..cmd.rep.number :
                    results[k].total = InnerTotal(cmd.expr, Drawn(k))
             /\ IsPlain => (outcome.rolls = results /\ outcome.total = <<>>)

\* `(1d2 + 1d2) ^ 2` on 1, 2, 2, 2 returns the totals 3, 4 and no aggregate
C18_Witness ==
    /\ pc = "done" /\ IsRepeatCmd /\ IsPlain /\ cmd.rep.number = MaxRepeat
    /\ DiceIn(cmd.expr) = 2
    /\ Faces = <<1, 2, 2, 2>>
    /\ outcome.kind = "repeated"
    /\ Totals(outcome.rolls) = <<3, 4>>
    /\ outcome.total = <<>>

\* v sorted by total, equal totals keeping their order
StableSorted(v) ==
    LET n == Len(v)
        p == CHOOSE q \in [1..n -> 1..n] :
                 /\ \A i, j \in 1..n : i # j => q[i] # q[j]
                 /\ \A i, j \in 1..n : i < j =>
                        \/ v[q[i]].total < v[q[j]].total
                        \/ v[q[i]].total = v[q[j]].total /\ q[i] < q[j]
    IN [i \in 1..n |-> v[p[i]]]

\* C19: with the sort qualifier the N results are returned in ascending
\* order of total, they are a permutation of the generated results, and
\* results with equal totals keep their generation order.
C19_SortIsStable ==
    (pc = "done" /\ IsRepeatCmd /\ cmd.rep.sort /\ outcome.kind = "repeated")
    => outcome.rolls = StableSorted(results)

\* The expression only adds plain dice terms
AddsDice(e) ==
    \A i \in 1..Len(e) : e[i].kind = "dice" \/ (e[i].kind = "op" /\ e[i].rule = "add")

\* C20: with the sum qualifier the aggregate is the sum of the N totals and
\* the results stay in generation order; the aggregate is present exactly
\* when the sum qualifier was used.
C20_SumAggregate ==
    (pc = "done" /\ IsRepeatCmd /\ outcome.kind = "repeated")
    => /\ (outcome.total # <<>>) <=> cmd.rep.sum_all
       /\ cmd.rep.sum_all
          => /\ outcome.total = <<SumSeq(Totals(outcome.rolls))>>
             /\ AddsDice(cmd.expr) => outcome.total = <<SumSeq(Faces)>>
             /\ outcome.rolls = results

\* `(1d2 + 1d2) ^+ 2` on 1, 2, 2, 2 has the aggregate 7
C20_Witness ==
    /\ pc = "done" /\ IsRepeatCmd /\ cmd.rep.sum_all /\ cmd.rep.number = MaxRepeat
    /\ DiceIn(cmd.expr) = 2
    /\ Faces = <<1, 2, 2, 2>>
    /\ outcome.kind = "repeated"
    /\ Totals(outcome.rolls) = <<3, 4>>
    /\ outcome.total = <<7>>

----------------------------------------------------------------------------
----------------------------------------------------------------------------
\* C22: a dice term of 0 sides, of more than 5000 dice or of more than
\* 5000 sides fails with a parameter error before any of its dice is
\* requested; 5000 dice and 5000 sides are accepted.
C22_LimitsCheckedBeforeRolling ==
    (pc = "done" /\ IsTermCmd)
    => IF TheTerm.sides = 0 \/ TermCount > 5000 \/ TheTerm.sides > 5000
       THEN outcome.kind = "err" /\ Requested = <<>>
       ELSE outcome.kind = "single" /\ Len(Requested) = TermCount

\* 5000d1 returns 5000
C22_Witness ==
    /\ pc = "done" /\ IsTermCmd /\ TermCount = 5000 /\ TheTerm.sides = 1
    /\ Len(Requested) = 5000
    /\ ReturnsTotal(5000)

----------------------------------------------------------------------------
\* C23: the arithmetic combinators never fault and never store a
\* wrapped-around total: when the exact sum, difference or product of two
\* integer totals is not a signed 64-bit integer, the caller still gets a
\* complete outcome or a descriptive error.
C23_NoFaultNoWrappedTotal ==
    /\ pc # "panic"
    /\ \A i \in 1..Len(log) : log[i].ev # "overflow"

----------------------------------------------------------------------------
\* The largest, over the faces present, of the sum of the dice showing
\* that face
BestGroup(faces) ==
    LET group(v) == v * Cardinality({i \in 1..Len(faces) : faces[i] = v})
    IN CHOOSE g \in {group(faces[i]) : i \in 1..Len(faces)} :
           \A j \in 1..Len(faces) : group(faces[j]) <= g

\* C24: compute_ova with a positive number on one plain roll returns as
\* total the largest sum of equal dice, also when that group is the group
\* of the highest face.
C24_OvaKeepsHighestGroup ==
    (pc = "ova" /\ IsTermCmd /\ TermCount >= 1 /\ log[Len(log)].number > 0)
    => ReturnsTotal(BestGroup(Faces))

----------------------------------------------------------------------------
\* The total of a history under modifier m is defined (m does not keep or
\* drop more values than there are) and is `total`
IsTotalOf(total, history, m) ==
    LET flat == SortAsc(Flatten(history))
    IN /\ ~(IsKeepDrop(m) /\ m.n > Len(flat))
       /\ total = FoldTotal(SliceOf(flat, m), m)

\* C25: over every sequence of add_history, compute_total and arithmetic
\* calls on a result: while dirty is false the stored total is the total of
\* the current history (also after a compute_total call that returned the
\* 'not enough dice' error), every history append sets dirty, and
\* compute_total on a non-dirty result returns the cached total and leaves
\* total, history and dirty alone.
C25_DirtyFlagInvariant ==
    (pc = "result" /\ log # <<>>)
    => LET e == log[Len(log)]
       IN /\ e.ev = "add_history" => rolls.dirty
          /\ (e.ev = "compute_total" /\ ~e.before.dirty)
             => (e.ret = Ok(e.before.total) /\ rolls = e.before)
          /\ (e.ev = "compute_total" /\ e.before.dirty /\ ~rolls.dirty)
             => IsTotalOf(rolls.total, rolls.history, e.m)
          /\ (e.ev = "arith" /\ ~e.before.dirty)
             => (~rolls.dirty /\ rolls.total = Trunc(QAdd(Operand(e.before), Operand(e.rhs))))

----------------------------------------------------------------------------
\* The table is built at most once, and once as soon as a thread is past
\* call_once; it was never read before its construction had completed; no
\* thread holds the write lock
ClimberSafe ==
    /\ climber.built <= 1
    /\ \A t \in Threads :
         threads[t].pos \in {"deref", "read", "parse"}
         => (climber.built = 1 /\ climber.ptr /\ climber.once = "complete")
    /\ ~climber.early
    /\ climber.writers = 0

AllReturned == \A t \in Threads : threads[t].pos = "idle" /\ threads[t].left = 0

\* C26: for every interleaving of concurrent evaluations the operator
\* table is constructed exactly once, no thread reads it before its
\* construction has completed, afterwards it is only read (the write lock
\* is never taken), and every evaluation gets through: no thread is blocked
\* on the table for ever.
C26_ClimberBuiltOnceReadMany == []ClimberSafe /\ <>[]AllReturned

\* Two threads parse at the same time, both holding the read lock, one of
\* them in a nested call
C26_Witness ==
    /\ pc = "threads"
    /\ climber.built = 1 /\ climber.readers = 3
    /\ threads[1].pos = "parse" /\ threads[2].pos = "parse"

----------------------------------------------------------------------------
\* The first option of the term has been applied and the next one is about
\* to be
AfterFirstOption ==
    /\ pc = "term" /\ IsTermCmd
    /\ Len(TermMods) >= 2 /\ Len(opts) = Len(TermMods) - 1

\* C27: after an explode or indefinite-explode modifier the working set
\* handed to the next modifier holds the dice that were in it before the
\* explosion together with all newly rolled dice.
C27_ExplodeAppendsToWorkingSet ==
    (AfterFirstOption /\ TermMods[1].rule \in {"explode", "i_explode"})
    => SortAsc(res) = SortAsc(Faces)

----------------------------------------------------------------------------
\* Every value occurs in a at most as often as in b
SubBag(a, b) ==
    \A v \in {a[i] : i \in 1..Len(a)} :
        Cardinality({i \in 1..Len(a) : a[i] = v}) <= Cardinality({i \in 1..Len(b) : b[i] = v})

ValueChanging ==
    {"explode", "i_explode", "reroll", "i_reroll", "keep_hi", "keep_lo", "drop_hi", "drop_lo"}

TargetKinds == {"target", "failure", "double_target", "target_enum"}

\* The term has a value-changing modifier before a target, failure,
\* double-target or target-set modifier, or two target-set modifiers
CombinesWithTarget ==
    \E i, j \in 1..Len(TermMods) :
        /\ i < j
        /\ TermMods[j].rule \in TargetKinds
        /\ \/ TermMods[i].rule \in ValueChanging
           \/ TermMods[i].rule = "target_enum" /\ TermMods[j].rule = "target_enum"

\* C28: in a term that combines a value-changing modifier with a later
\* target, failure, double-target or target-set modifier, or that repeats
\* a target-set modifier, each die contributes to the total at most once:
\* the values flattened from the history hold no die more often than it
\* was rolled, and after explosions only, every die exactly once.
C28_EachDieCountedOnce ==
    (pc = "done" /\ IsTermCmd /\ CombinesWithTarget /\ outcome.kind = "single")
    => /\ SubBag(Flatten(outcome.val.history), Faces)
       /\ (\A i \in 1..Len(TermMods) :
               TermMods[i].rule \in {"explode"} \cup TargetKinds)
          => SortAsc(Flatten(outcome.val.history)) = SortAsc(Faces)

\* The step merges a target, failure or double-target modifier into an
\* accumulated TargetFailureDouble
MergesIntoTfd ==
    /\ pc = "term"
    /\ opts # <<>>
    /\ Head(opts).rule \in {"target", "failure", "double_target"}
    /\ modifier.tag = "TargetFailureDouble"

\* C29: merging a later target, failure or double-target modifier into the
\* accumulated one changes at most the field of the incoming modifier's
\* kind and leaves the other two fields as they were, whatever the incoming
\* value is, 0 included.
C29_MergeChangesOnlyIncomingKind ==
    [][MergesIntoTfd =>
         /\ modifier'.tag = "TargetFailureDouble"
         /\ Head(opts).rule # "target" => modifier'.t = modifier.t
         /\ Head(opts).rule # "failure" => modifier'.f = modifier.f
         /\ Head(opts).rule # "double_target" => modifier'.d = modifier.d]_vars

\* The dice terms of an expression in textual order, blocks opened
RECURSIVE TermsOf(_)
TermsOf(e) ==
    IF e = <<>> THEN <<>>
    ELSE (IF Head(e).kind = "block_expr" THEN TermsOf(Head(e).expr)
          ELSE IF Head(e).kind = "dice" THEN <<Head(e)>>
          ELSE <<>>) \o TermsOf(Tail(e))

\* The textual position of the term with these sides
TextPos(sides) ==
    CHOOSE k \in 1..Len(TermsOf(cmd.expr)) : TermsOf(cmd.expr)[k].sides = sides

\* The faces drawn for the k-th term in textual order
DrawnFor(k) ==
    LET mine == SelectSeq(Requested, LAMBDA e : e.sides = TermsOf(cmd.expr)[k].sides)
    IN [i \in 1..Len(mine) |-> mine[i].value]

\* The dice the k-th term leaves in the history's rolls: every die drawn,
\* or for a re-rolling one-die term the die that replaced the first
ShownFor(k) ==
    IF "reroll" \in RulesOf(TermsOf(cmd.expr)[k].mods)
    THEN <<Last(DrawnFor(k))>>
    ELSE DrawnFor(k)

IsOrderCmd ==
    /\ ~cmd.rep.on
    /\ Len(TermsOf(cmd.expr)) = 3
    /\ \A i, j \in 1..3 : i # j => TermsOf(cmd.expr)[i].sides # TermsOf(cmd.expr)[j].sides

\* C30: the dice terms of an expression draw from the source in
\* left-to-right textual order whatever the precedence or the parentheses:
\* every die of a term, explosions and re-rolls included, is requested
\* before any die of a term further right, and the history of the result
\* lists the terms' dice in the same order.
C30_TermsDrawLeftToRight ==
    IsOrderCmd =>
      /\ \A i, j \in 1..Len(Requested) :
           i < j => TextPos(Requested[i].sides) <= TextPos(Requested[j].sides)
      /\ (pc = "done" /\ outcome.kind = "single")
         => Flatten(outcome.val.history) = ShownFor(1) \o ShownFor(2) \o ShownFor(3)

\* A + B * C with an exploding A has finished: the product was computed
\* first and A's dice, the explosion included, were still drawn first
C30_Witness ==
    /\ IsOrderCmd
    /\ pc = "done" /\ outcome.kind = "single"
    /\ Len(cmd.expr) = 5
    /\ cmd.expr[2].rule = "add" /\ cmd.expr[4].rule = "mul"
    /\ "explode" \in RulesOf(cmd.expr[1].mods)
    /\ Len(DrawnFor(1)) = 2
    /\ DrawnFor(2) # DrawnFor(3)

====
